---- MODULE Spec2Model ----
(***************************************************************************)
(* A model of the monitoring-and-response control loop of the Euystacio    *)
(* kernel: the integrity-protected kernel state (euystacio_core.py), the   *)
(* hash-chained audit log (euystacio_audit_log.py), the response layer     *)
(* (euystacio_response.py) and the guardian (euystacio_helmi_guardian.py). *)
(*                                                                         *)
(* Two specifications share the variables.  Spec is the kernel, response   *)
(* and guardian: every handler is one action, with every call it makes.    *)
(* The kernel never reads the audit log back, so Spec keeps of the log the *)
(* entries the last operation appended (audit).  SpecLog is the audit      *)
(* logger itself: the log file, the hash chain, rotation and verification. *)
(*                                                                         *)
(* Units: trust and harmony are in tenths (10 is 1.0), the clock is in     *)
(* seconds.                                                                *)
(***************************************************************************)
EXTENDS Integers, Sequences, FiniteSets, TLC

VARIABLES
    \* ---- EuystacioKernelState
    state,              \* the state dict
    integrity_hash,     \* the stored hash of the state dict
    state_history,      \* one entry per successful update
    \* ---- QuarantineManager, SafeModeManager, AlertManager
    quarantined_inputs,
    safe_mode_history,
    alert_history,
    \* ---- EuystacioHelmiGuardian, DualValidationSystem, WatchdogTimer
    validation_history,
    anomaly_history,
    monitoring_active,
    watchdog_running,
    \* ---- environment and observation of the kernel specification
    now,                \* the wall clock, time.time()
    audit,              \* the audit entries the last operation appended
    op,                 \* the last operation: its name, argument and result
    steps,              \* the number of operations performed
    \* ---- ImmutableAuditLogger
    log_file,           \* the active log file: NoFile or its entries
    backups,            \* the rotated files log_file.1 .. log_file.backup_count
    last_hash,          \* the head hash the logger holds in memory
    integrity_chain,    \* the in-memory chain of {sequence, hash}
    log_lock,           \* the holder of log_lock: "free" or a call
    verify_result,      \* what verify_integrity_chain last returned
    tamper,             \* the modification made to the persisted file, if any
    \* ---- the threads of the specifications with concurrent callers
    threads,            \* per thread: where it is in its call, and its locals
    \* ---- the file system under the logger
    log_writable        \* whether a write of the log file succeeds

kvars == <<state, integrity_hash, state_history, quarantined_inputs,
           safe_mode_history, alert_history, validation_history,
           anomaly_history, monitoring_active, watchdog_running, now, audit,
           op, steps>>

lvars == <<log_file, backups, last_hash, integrity_chain, log_lock,
           verify_result, tamper>>

cvars == <<threads, log_writable>>

vars == <<kvars, lvars, cvars>>

(***************************************************************************)
(* Bounds of the model.                                                    *)
(***************************************************************************)
\* The number of operations of one behaviour of Spec.
MaxOps == 4

(***************************************************************************)
(* Program constants.                                                      *)
(***************************************************************************)
\* WatchdogTimer.timeout_seconds
timeout_seconds == 30
\* EuystacioHelmiGuardian.anomaly_threshold, 0.5, in tenths
anomaly_threshold == 5

(***************************************************************************)
(* The kernel state.                                                       *)
(***************************************************************************)
valid_emotions == {"Love", "Anger", "Calm", "Joy", "Fear", "Neutral"}
valid_contexts == {"Calm", "Tense", "Crisis", "Peaceful", "Uncertain"}
valid_levels == {"normal", "warning", "critical", "emergency"}

StateKeys == {"trust", "harmony", "emotion", "context", "last_updated",
              "heartbeat", "safe_mode", "alert_level"}

\* EuystacioKernelState.__init__ at clock t
InitialState(t) ==
    [trust |-> 10, harmony |-> 10, emotion |-> "Calm", context |-> "Calm",
     last_updated |-> t, heartbeat |-> t, safe_mode |-> FALSE,
     alert_level |-> "normal"]

\* _calculate_hash: sha256 of the canonical JSON of the state dict.  The
\* digest is modelled as the injective image of the dict it was taken of.
CalculateHash(st) == <<"sha256", st>>

\* A value a caller passes: its Python type and the value.
Num(n) == [t |-> "num", v |-> n]
Str(s) == [t |-> "str", v |-> s]
Bool(b) == [t |-> "bool", v |-> b]

\* The number a value is in a comparison or a subtraction: a Python bool is
\* an int, True 1.0 and False 0.0 (in tenths, as trust and harmony are kept).
NumberOf(val) == IF val.t = "bool" THEN (IF val.v THEN 10 ELSE 0) ELSE val.v

\* The validator without the range test of trust and harmony.
ValidateTypeOnly(key, val) ==
    CASE key \in {"trust", "harmony"} -> val.t \in {"num", "bool"}
      [] key = "emotion" -> val.t = "str" /\ val.v \in valid_emotions
      [] key = "context" -> val.t = "str" /\ val.v \in valid_contexts
      [] key = "safe_mode" -> val.t = "bool"
      [] key = "alert_level" -> val.t = "str" /\ val.v \in valid_levels
      [] OTHER -> TRUE

\* _validate_state_change(key, new_value, old_value).  isinstance(new_value,
\* (int, float)) holds of a bool as well.
ValidateStateChange(key, val) ==
    CASE key \in {"trust", "harmony"} ->
            val.t \in {"num", "bool"} /\ 0 <= NumberOf(val) /\ NumberOf(val) <= 10
      [] key = "emotion" -> val.t = "str" /\ val.v \in valid_emotions
      [] key = "context" -> val.t = "str" /\ val.v \in valid_contexts
      [] key = "safe_mode" -> val.t = "bool"
      [] key = "alert_level" -> val.t = "str" /\ val.v \in valid_levels
      [] OTHER -> TRUE

(***************************************************************************)
(* A handler is a function of the world: the record of the program state   *)
(* it reads and writes.  A handler that returns a value yields             *)
(* [w |-> the world after, ret |-> the value].                             *)
(***************************************************************************)
World ==
    [st |-> state, ih |-> integrity_hash, sh |-> state_history,
     quar |-> quarantined_inputs, smh |-> safe_mode_history,
     alerts |-> alert_history, vh |-> validation_history,
     ah |-> anomaly_history, t |-> now, log |-> <<>>, activations |-> 0]

\* log_event(event_type, data) as the kernel sees it: one more entry.
LogEvent(w, type, action, info) ==
    [w EXCEPT !.log = Append(@, [type |-> type, action |-> action,
                                 info |-> info])]

\* verify_integrity
VerifyIntegrity(w) == CalculateHash(w.st) = w.ih

\* self.state[key] = value.  The model keeps trust and harmony as the number
\* the value is.
StoredValue(key, val) ==
    IF key \in {"trust", "harmony"} THEN NumberOf(val) ELSE val.v

\* The loop of update_state over updates.items(), from item i on: each
\* valid item is written into the state dict as it is met; the first
\* invalid one ends the loop.
RECURSIVE ApplyUpdates(_, _, _)
ApplyUpdates(st, updates, i) ==
    IF i > Len(updates)
    THEN [st |-> st, bad |-> 0]
    ELSE LET key == updates[i].key
             val == updates[i].val
         IN IF key \notin StateKeys
            THEN ApplyUpdates(st, updates, i + 1)
            ELSE IF ValidateStateChange(key, val)
                 THEN ApplyUpdates([st EXCEPT ![key] = StoredValue(key, val)],
                                   updates, i + 1)
                 ELSE [st |-> st, bad |-> i]

\* update_state with the snapshot of the history entry taken after the
\* updates were applied.
UpdateStateLateSnapshot(w, updates, source) ==
    IF ~VerifyIntegrity(w)
    THEN [w |-> LogEvent(w, "kernel_state", "integrity_compromised_before_update",
                         <<source>>),
          ret |-> FALSE]
    ELSE LET r == ApplyUpdates(w.st, updates, 1)
         IN IF r.bad # 0
            THEN [w |-> LogEvent([w EXCEPT !.st = r.st], "kernel_state",
                                 "invalid_state_change_rejected",
                                 <<updates[r.bad].key, source>>),
                  ret |-> FALSE]
            ELSE LET st2 == [r.st EXCEPT !.last_updated = w.t,
                                         !.heartbeat = w.t]
                     w2 == [w EXCEPT !.st = st2,
                                     !.sh = Append(@, [timestamp |-> w.t,
                                                       previous_state |-> r.st,
                                                       updates |-> updates,
                                                       source |-> source]),
                                     !.ih = CalculateHash(st2)]
                 IN [w |-> LogEvent(w2, "kernel_state", "state_updated",
                                    <<source>>),
                     ret |-> TRUE]

\* update_state(updates, source)
UpdateState(w, updates, source) ==
    IF ~VerifyIntegrity(w)
    THEN [w |-> LogEvent(w, "kernel_state", "integrity_compromised_before_update",
                         <<source>>),
          ret |-> FALSE]
    ELSE LET r == ApplyUpdates(w.st, updates, 1)
         IN IF r.bad # 0
            THEN [w |-> LogEvent([w EXCEPT !.st = r.st], "kernel_state",
                                 "invalid_state_change_rejected",
                                 <<updates[r.bad].key, source>>),
                  ret |-> FALSE]
            ELSE LET st2 == [r.st EXCEPT !.last_updated = w.t,
                                         !.heartbeat = w.t]
                     w2 == [w EXCEPT !.st = st2,
                                     !.sh = Append(@, [timestamp |-> w.t,
                                                       previous_state |-> w.st,
                                                       updates |-> updates,
                                                       source |-> source]),
                                     !.ih = CalculateHash(st2)]
                 IN [w |-> LogEvent(w2, "kernel_state", "state_updated",
                                    <<source>>),
                     ret |-> TRUE]

\* get_state_copy: the copy, or {} when the integrity check fails.  ok says
\* whether the dict returned is non-empty.
GetStateCopy(w) ==
    IF ~VerifyIntegrity(w)
    THEN [w |-> LogEvent(w, "kernel_state", "integrity_compromised_during_read",
                         <<>>),
          ok |-> FALSE, st |-> w.st]
    ELSE [w |-> w, ok |-> TRUE, st |-> w.st]

(***************************************************************************)
(* The response layer.                                                     *)
(***************************************************************************)
\* An alert that also raises the alert_level of the kernel state to its
\* severity.
SendAlertRaisingLevel(w, message, severity) ==
    LET rec == [id |-> <<"alert", w.t, Len(w.alerts)>>, timestamp |-> w.t,
                message |-> message, severity |-> severity, status |-> "sent"]
    IN LogEvent([w EXCEPT !.alerts = Append(@, rec),
                          !.st.alert_level = severity],
                "alert", message, <<severity>>)

\* AlertManager.send_alert(message, severity)
SendAlert(w, message, severity) ==
    LET rec == [id |-> <<"alert", w.t, Len(w.alerts)>>, timestamp |-> w.t,
                message |-> message, severity |-> severity, status |-> "sent"]
    IN LogEvent([w EXCEPT !.alerts = Append(@, rec)], "alert", message,
                <<severity>>)

\* SafeModeManager._verify_deactivation_authorization
authorized_users == {"admin", "guardian", "operator"}

VerifyDeactivationAuthorization(authorized_by) ==
    authorized_by \in authorized_users

\* activate_safe_mode that records and alerts whatever update_kernel_state
\* answered.
ActivateSafeModeUnchecked(w0, reason, triggered_by) ==
    LET w == [w0 EXCEPT !.activations = @ + 1]
        c == GetStateCopy(w)
    IN IF c.ok /\ c.st.safe_mode
       THEN [w |-> LogEvent(c.w, "safe_mode", "already_active", <<reason>>),
             ret |-> TRUE]
       ELSE LET u == UpdateState(c.w,
                                 <<[key |-> "safe_mode", val |-> Bool(TRUE)],
                                   [key |-> "alert_level", val |-> Str("critical")]>>,
                                 <<"safe_mode_activation", triggered_by>>)
                rec == [timestamp |-> w.t, reason |-> reason,
                        triggered_by |-> triggered_by,
                        restrictions |-> {"disable_external_api",
                                          "limit_state_changes",
                                          "enhanced_logging",
                                          "require_authorization"},
                        deactivated_at |-> 0, deactivated_by |-> ""]
                w2 == [u.w EXCEPT !.smh = Append(@, rec)]
                w3 == LogEvent(w2, "safe_mode", "activated",
                               <<reason, triggered_by>>)
            IN [w |-> SendAlert(w3, "SAFE MODE ACTIVATED", "critical"),
                ret |-> u.ret]

\* SafeModeManager.activate_safe_mode(reason, triggered_by)
ActivateSafeMode(w0, reason, triggered_by) ==
    LET w == [w0 EXCEPT !.activations = @ + 1]
        c == GetStateCopy(w)
    IN IF c.ok /\ c.st.safe_mode
       THEN [w |-> LogEvent(c.w, "safe_mode", "already_active", <<reason>>),
             ret |-> TRUE]
       ELSE LET u == UpdateState(c.w,
                                 <<[key |-> "safe_mode", val |-> Bool(TRUE)],
                                   [key |-> "alert_level", val |-> Str("critical")]>>,
                                 <<"safe_mode_activation", triggered_by>>)
            IN IF u.ret
               THEN LET rec == [timestamp |-> w.t, reason |-> reason,
                                triggered_by |-> triggered_by,
                                restrictions |-> {"disable_external_api",
                                                  "limit_state_changes",
                                                  "enhanced_logging",
                                                  "require_authorization"},
                                deactivated_at |-> 0, deactivated_by |-> ""]
                        w2 == [u.w EXCEPT !.smh = Append(@, rec)]
                        w3 == LogEvent(w2, "safe_mode", "activated",
                                       <<reason, triggered_by>>)
                    IN [w |-> SendAlert(w3, "SAFE MODE ACTIVATED", "critical"),
                        ret |-> TRUE]
               ELSE [w |-> u.w, ret |-> FALSE]

\* SafeModeManager.deactivate_safe_mode(authorized_by)
DeactivateSafeMode(w, authorized_by) ==
    LET c == GetStateCopy(w)
    IN IF ~(c.ok /\ c.st.safe_mode)
       THEN [w |-> LogEvent(c.w, "safe_mode", "not_active", <<authorized_by>>),
             ret |-> TRUE]
       ELSE IF ~VerifyDeactivationAuthorization(authorized_by)
       THEN [w |-> SendAlert(LogEvent(c.w, "safe_mode",
                                      "deactivation_unauthorized",
                                      <<authorized_by>>),
                             "Unauthorized safe mode deactivation attempt",
                             "warning"),
             ret |-> FALSE]
       ELSE LET u == UpdateState(c.w,
                                 <<[key |-> "safe_mode", val |-> Bool(FALSE)],
                                   [key |-> "alert_level", val |-> Str("normal")]>>,
                                 <<"safe_mode_deactivation", authorized_by>>)
            IN IF u.ret
               THEN LET n == Len(u.w.smh)
                        w2 == IF n > 0
                              THEN [u.w EXCEPT !.smh[n].deactivated_at = w.t,
                                               !.smh[n].deactivated_by = authorized_by]
                              ELSE u.w
                        w3 == LogEvent(w2, "safe_mode", "deactivated",
                                       <<authorized_by>>)
                    IN [w |-> SendAlert(w3, "Safe mode deactivated", "info"),
                        ret |-> TRUE]
               ELSE [w |-> u.w, ret |-> FALSE]

\* QuarantineManager.quarantine_input(input_data, reason); ret is the id.
QuarantineInput(w, input_data, reason) ==
    LET id == <<"q", w.t, Len(w.quar)>>
        rec == [id |-> id, timestamp |-> w.t, data |-> input_data,
                reason |-> reason, status |-> "quarantined",
                released_by |-> "", released_at |-> 0]
    IN [w |-> LogEvent([w EXCEPT !.quar = Append(@, rec)], "input_quarantine",
                       "input_quarantined", <<id, reason>>),
        ret |-> id]

\* The loop of release_quarantine over the records, from record i on: the
\* first record with the id is released, whoever asks.
RECURSIVE ReleaseFrom(_, _, _, _)
ReleaseFrom(w, quarantine_id, authorized_by, i) ==
    IF i > Len(w.quar)
    THEN [w |-> w, ret |-> FALSE]
    ELSE IF w.quar[i].id = quarantine_id
         THEN [w |-> LogEvent([w EXCEPT !.quar[i].status = "released",
                                        !.quar[i].released_by = authorized_by,
                                        !.quar[i].released_at = w.t],
                              "input_quarantine", "quarantine_released",
                              <<quarantine_id, authorized_by>>),
               ret |-> TRUE]
         ELSE ReleaseFrom(w, quarantine_id, authorized_by, i + 1)

\* A release that purges the record in the place of the status flip.
ReleaseQuarantinePurging(w, quarantine_id, authorized_by) ==
    LET Keep(rec) == rec.id # quarantine_id
    IN [w |-> [w EXCEPT !.quar = SelectSeq(@, Keep)],
        ret |-> \E i \in 1..Len(w.quar) : w.quar[i].id = quarantine_id]

\* QuarantineManager.release_quarantine(quarantine_id, authorized_by)
ReleaseQuarantine(w, quarantine_id, authorized_by) ==
    ReleaseFrom(w, quarantine_id, authorized_by, 1)

\* emergency_shutdown(reason, triggered_by)
EmergencyShutdown(w, reason, triggered_by) ==
    LET w1 == LogEvent(w, "emergency_shutdown", reason, <<triggered_by>>)
        a == ActivateSafeMode(w1, "Emergency shutdown", triggered_by)
    IN [w |-> SendAlert(a.w, "EMERGENCY SHUTDOWN INITIATED", "emergency"),
        ret |-> TRUE]

(***************************************************************************)
(* The guardian.                                                           *)
(***************************************************************************)
Abs(x) == IF x < 0 THEN -x ELSE x

Threat(type, severity) == [type |-> type, severity |-> severity]

\* The baseline _establish_baseline returns, in tenths.
baseline_state == [trust |-> 10, harmony |-> 10]

\* _detect_trust_anomaly: the anomalies found, none or one.
DetectTrustAnomaly(st) ==
    LET deviation == Abs(st.trust - baseline_state.trust)
    IN IF deviation > anomaly_threshold
       THEN <<Threat("trust_anomaly",
                     IF deviation > 7 THEN "high" ELSE "medium")>>
       ELSE <<>>

\* _detect_harmony_anomaly
DetectHarmonyAnomaly(st) ==
    LET deviation == Abs(st.harmony - baseline_state.harmony)
    IN IF deviation > anomaly_threshold
       THEN <<Threat("harmony_anomaly",
                     IF deviation > 7 THEN "high" ELSE "medium")>>
       ELSE <<>>

anomalous_pairs == {<<"Anger", "Calm">>, <<"Fear", "Peaceful">>,
                    <<"Love", "Crisis">>}

\* _detect_emotional_anomaly
DetectEmotionalAnomaly(st) ==
    IF <<st.emotion, st.context>> \in anomalous_pairs
    THEN <<Threat("emotional_anomaly", "medium")>>
    ELSE <<>>

\* timedelta.seconds: the seconds within the day of a difference of clocks.
Seconds(d) == d % 86400

\* seq[-n:]
LastN(seq, n) ==
    IF Len(seq) <= n THEN seq ELSE SubSeq(seq, Len(seq) - n + 1, Len(seq))

\* _analyze_behavior_patterns
AnalyzeBehaviorPatterns(w) ==
    IF Len(w.ah) >= 5
    THEN LET recent_anomalies == LastN(w.ah, 5)
             n == Cardinality({i \in 1..Len(recent_anomalies) :
                                 Seconds(w.t - recent_anomalies[i].timestamp) < 300})
         IN IF n >= 3 THEN <<Threat("pattern_anomaly", "high")>> ELSE <<>>
    ELSE <<>>

\* _verify_state_integrity
VerifyStateIntegrity(st) ==
    IF st.trust < 3 /\ st.harmony < 3 /\ ~st.safe_mode
    THEN <<Threat("integrity_anomaly", "critical")>>
    ELSE <<>>

\* DualValidationSystem._primary_validator
PrimaryValidator(w, threat_level, decision_type) ==
    CASE decision_type = "kill_switch_activation" ->
            LET c == GetStateCopy(w)
            IN (IF c.ok THEN c.st.trust ELSE 10) < 3
               /\ (IF c.ok THEN c.st.harmony ELSE 10) < 3
      [] decision_type = "safe_mode_activation" ->
            threat_level \in {"severe", "critical"}
      [] OTHER -> TRUE

\* DualValidationSystem._secondary_validator
SecondaryValidator(w, threat_level, decision_type) ==
    CASE decision_type = "kill_switch_activation" ->
            LET c == GetStateCopy(w)
            IN (IF c.ok THEN c.st.alert_level ELSE "normal")
                  \in {"critical", "emergency"}
      [] decision_type = "safe_mode_activation" ->
            \/ Len(w.vh) = 0
            \/ \E i \in 1..Len(LastN(w.vh, 5)) :
                  LastN(w.vh, 5)[i].decision_type = "anomaly_detected"
      [] OTHER -> TRUE

\* The gate with "or" in the place of "and".
ValidationPassedEither(primary_result, secondary_result) ==
    primary_result \/ secondary_result

\* validation_passed = primary_result and secondary_result
ValidationPassed(primary_result, secondary_result) ==
    primary_result /\ secondary_result

\* DualValidationSystem.validate_decision(decision, decision_type)
ValidateDecision(w, threat_level, decision_type) ==
    LET primary_result == PrimaryValidator(w, threat_level, decision_type)
        secondary_result == SecondaryValidator(w, threat_level, decision_type)
        validation_passed == ValidationPassed(primary_result, secondary_result)
        rec == [timestamp |-> w.t, decision |-> threat_level,
                decision_type |-> decision_type,
                primary_result |-> primary_result,
                secondary_result |-> secondary_result,
                final_result |-> validation_passed]
    IN [w |-> LogEvent([w EXCEPT !.vh = Append(@, rec)], "dual_validation",
                       decision_type,
                       <<primary_result, secondary_result, validation_passed>>),
        ret |-> validation_passed]

\* EuystacioHelmiGuardian.initiate_response(threat_level, threats)
InitiateResponse(w, threat_level, threats) ==
    LET r == CASE threat_level = "critical" ->
                    LET v == ValidateDecision(w, threat_level, "safe_mode_activation")
                    IN IF v.ret
                       THEN [w |-> SendAlert(
                                     ActivateSafeMode(v.w, "Critical threats detected",
                                                      "guardian").w,
                                     "CRITICAL: Guardian detected critical threats",
                                     "emergency"),
                             actions |-> <<"safe_mode_activated",
                                           "emergency_alert_sent">>]
                       ELSE [w |-> v.w, actions |-> <<>>]
               [] threat_level = "severe" ->
                    LET v == ValidateDecision(w, threat_level, "safe_mode_activation")
                    IN IF v.ret
                       THEN [w |-> SendAlert(
                                     ActivateSafeMode(v.w, "Severe threats detected",
                                                      "guardian").w,
                                     "SEVERE: Guardian activated safe mode",
                                     "critical"),
                             actions |-> <<"safe_mode_activated",
                                           "critical_alert_sent">>]
                       ELSE [w |-> v.w, actions |-> <<>>]
               [] threat_level = "moderate" ->
                    [w |-> SendAlert(w, "MODERATE: Guardian detected threats",
                                     "warning"),
                     actions |-> <<"warning_alert_sent">>]
               [] OTHER -> [w |-> w, actions |-> <<>>]
    IN [w |-> LogEvent(r.w, "threat_response", threat_level,
                       <<Len(threats), r.actions>>),
        ret |-> <<"response_initiated", threat_level, r.actions>>]

\* The loop of _process_threats that records the anomalies, from threat i on.
RECURSIVE RecordAnomalies(_, _, _)
RecordAnomalies(w, threats, i) ==
    IF i > Len(threats)
    THEN w
    ELSE RecordAnomalies(
             LogEvent([w EXCEPT !.ah = Append(@, [timestamp |-> w.t,
                                                  threat |-> threats[i]])],
                      "anomaly_detection", threats[i].type,
                      <<threats[i].severity>>),
             threats, i + 1)

CountSeverity(threats, severity) ==
    Cardinality({i \in 1..Len(threats) : threats[i].severity = severity})

\* The response level with the medium anomalies left out of the count.
ResponseLevelNoMedium(threats) ==
    LET critical == CountSeverity(threats, "critical")
        high == CountSeverity(threats, "high")
    IN IF critical > 0 THEN "critical"
       ELSE IF high >= 2 THEN "severe"
       ELSE IF high > 0 THEN "moderate"
       ELSE "none"

\* The response level _process_threats decides, "none" when it decides none.
ResponseLevel(threats) ==
    LET critical == CountSeverity(threats, "critical")
        high == CountSeverity(threats, "high")
        medium == CountSeverity(threats, "medium")
    IN IF critical > 0 THEN "critical"
       ELSE IF high >= 2 \/ (high >= 1 /\ medium >= 2) THEN "severe"
       ELSE IF high > 0 \/ medium >= 3 THEN "moderate"
       ELSE "none"

\* _process_threats(threat_indicators, current_state)
ProcessThreats(w, threats) ==
    LET w1 == RecordAnomalies(w, threats, 1)
        level == ResponseLevel(threats)
    IN IF level # "none"
       THEN InitiateResponse(w1, level, threats)
       ELSE [w |-> w1, ret |-> <<"threats_logged", "none", <<>>>>]

\* monitor(), lines 218-242: the threat indicators of the five detectors,
\* of the state copy c.
ThreatIndicators(c) ==
    DetectTrustAnomaly(c.st) \o DetectHarmonyAnomaly(c.st)
    \o DetectEmotionalAnomaly(c.st)
    \o AnalyzeBehaviorPatterns(c.w)
    \o VerifyStateIntegrity(c.st)

\* EuystacioHelmiGuardian.monitor()
Monitor(w) ==
    LET c == GetStateCopy(w)
    IN IF ~c.ok
       THEN [w |-> LogEvent(c.w, "guardian", "unable_to_retrieve_state", <<>>),
             ret |-> <<"error", "state_unavailable", <<>>>>]
       ELSE LET threats == ThreatIndicators(c)
            IN IF Len(threats) > 0
               THEN ProcessThreats(c.w, threats)
               ELSE [w |-> c.w, ret |-> <<"normal", "none", <<>>>>]

\* Whether _monitor_heartbeat finds the heartbeat lost.
HeartbeatTimeout(w) ==
    w.st.heartbeat = 0 \/ (w.t - w.st.heartbeat) > timeout_seconds

\* One pass of the loop of WatchdogTimer._monitor_heartbeat
MonitorHeartbeat(w) ==
    IF HeartbeatTimeout(w)
    THEN LET w1 == LogEvent(w, "watchdog", "heartbeat_timeout",
                            <<w.st.heartbeat>>)
             a == ActivateSafeMode(w1, "Watchdog timeout", "watchdog")
         IN [w |-> SendAlert(a.w, "WATCHDOG ALERT: Kernel heartbeat timeout",
                             "critical"),
             ret |-> TRUE]
    ELSE [w |-> w, ret |-> FALSE]

(***************************************************************************)
(* The kernel specification: one action per public operation, per pass of  *)
(* a background loop, and for the clock.                                   *)
(***************************************************************************)
Item(key, val) == [key |-> key, val |-> val]

\* The updates maps callers pass, in the order of their items.
UpdateInputs ==
    {<<Item("trust", Num(2)), Item("harmony", Num(2))>>,
     <<Item("trust", Num(2))>>,
     <<Item("trust", Num(5)), Item("harmony", Num(50))>>,
     <<Item("harmony", Num(50)), Item("trust", Num(5))>>,
     <<Item("emotion", Str("Anger"))>>,
     <<Item("emotion", Str("Furious"))>>,
     <<Item("context", Str("Crisis"))>>,
     <<Item("safe_mode", Bool(FALSE))>>,
     <<Item("safe_mode", Bool(TRUE)), Item("trust", Num(50))>>,
     <<Item("safe_mode", Str("yes"))>>,
     <<Item("trust", Bool(FALSE))>>,
     <<Item("alert_level", Str("warning"))>>,
     <<Item("unknown_key", Num(1))>>}

\* Who asks for a deactivation or a release.
Callers == {"admin", "mallory"}

\* The steps of the clock: past the watchdog timeout.
ClockSteps == {timeout_seconds + 1}

NoOp == [name |-> "init", arg |-> <<>>, ret |-> <<>>, activations |-> 0]

\* The state after construction, at clock 1.
InitKernel ==
    /\ now = 1
    /\ state = InitialState(1)
    /\ integrity_hash = CalculateHash(InitialState(1))
    /\ state_history = <<>>
    /\ quarantined_inputs = <<>>
    /\ safe_mode_history = <<>>
    /\ alert_history = <<>>
    /\ validation_history = <<>>
    /\ anomaly_history = <<>>
    /\ monitoring_active = FALSE
    /\ watchdog_running = FALSE
    /\ audit = <<>>
    /\ op = NoOp
    /\ steps = 0

\* The handler ran from World to w and returned ret.
Commit(w, name, arg, ret) ==
    /\ state' = w.st
    /\ integrity_hash' = w.ih
    /\ state_history' = w.sh
    /\ quarantined_inputs' = w.quar
    /\ safe_mode_history' = w.smh
    /\ alert_history' = w.alerts
    /\ validation_history' = w.vh
    /\ anomaly_history' = w.ah
    /\ audit' = w.log
    /\ op' = [name |-> name, arg |-> arg, ret |-> ret,
              activations |-> w.activations]
    /\ steps' = steps + 1

\* update_kernel_state(updates, source)
UpdateKernelStateCall ==
    /\ UNCHANGED <<lvars, cvars>>
    /\ steps < MaxOps
    /\ \E updates \in UpdateInputs :
          \E r \in {UpdateState(World, updates, <<"api">>)} :
             Commit(r.w, "update_kernel_state", updates, r.ret)
    /\ UNCHANGED <<now, monitoring_active, watchdog_running>>

\* activate_safe_mode(reason, triggered_by)
ActivateSafeModeCall ==
    /\ UNCHANGED <<lvars, cvars>>
    /\ steps < MaxOps
    /\ \E r \in {ActivateSafeMode(World, "x", "y")} :
          Commit(r.w, "activate_safe_mode", <<"x", "y">>, r.ret)
    /\ UNCHANGED <<now, monitoring_active, watchdog_running>>

\* deactivate_safe_mode(authorized_by)
DeactivateSafeModeCall ==
    /\ UNCHANGED <<lvars, cvars>>
    /\ steps < MaxOps
    /\ \E authorized_by \in Callers :
          \E r \in {DeactivateSafeMode(World, authorized_by)} :
             Commit(r.w, "deactivate_safe_mode", authorized_by, r.ret)
    /\ UNCHANGED <<now, monitoring_active, watchdog_running>>

\* quarantine_input(input_data, reason)
QuarantineInputCall ==
    /\ UNCHANGED <<lvars, cvars>>
    /\ steps < MaxOps
    /\ \E r \in {QuarantineInput(World, "input", "reason")} :
          Commit(r.w, "quarantine_input", <<"input", "reason">>, r.ret)
    /\ UNCHANGED <<now, monitoring_active, watchdog_running>>

\* release_quarantine(quarantine_id, authorized_by), of a known id or of one
\* that names no record.
ReleaseQuarantineCall ==
    /\ UNCHANGED <<lvars, cvars>>
    /\ steps < MaxOps
    /\ \E id \in {quarantined_inputs[i].id : i \in 1..Len(quarantined_inputs)}
                 \cup {<<"q", 0, 0>>},
          authorized_by \in Callers :
          \E r \in {ReleaseQuarantine(World, id, authorized_by)} :
             Commit(r.w, "release_quarantine", <<id, authorized_by>>, r.ret)
    /\ UNCHANGED <<now, monitoring_active, watchdog_running>>

\* emergency_shutdown(reason, triggered_by)
EmergencyShutdownCall ==
    /\ UNCHANGED <<lvars, cvars>>
    /\ steps < MaxOps
    /\ \E r \in {EmergencyShutdown(World, "reason", "system")} :
          Commit(r.w, "emergency_shutdown", <<"reason", "system">>, r.ret)
    /\ UNCHANGED <<now, monitoring_active, watchdog_running>>

\* start_monitoring()
StartMonitoring ==
    /\ UNCHANGED <<lvars, cvars>>
    /\ steps < MaxOps
    /\ IF monitoring_active
       THEN /\ Commit(World, "start_monitoring", <<>>, <<>>)
            /\ UNCHANGED <<monitoring_active, watchdog_running>>
       ELSE /\ monitoring_active' = TRUE
            /\ watchdog_running' = TRUE
            /\ Commit(SendAlert(LogEvent(LogEvent(World, "watchdog", "started",
                                                  <<timeout_seconds>>),
                                         "guardian", "monitoring_started", <<>>),
                                "Guardian monitoring activated", "info"),
                      "start_monitoring", <<>>, <<>>)
    /\ UNCHANGED now

\* stop_monitoring()
StopMonitoring ==
    /\ UNCHANGED <<lvars, cvars>>
    /\ steps < MaxOps
    /\ monitoring_active' = FALSE
    /\ watchdog_running' = FALSE
    /\ Commit(LogEvent(LogEvent(World, "watchdog", "stopped", <<>>),
                       "guardian", "monitoring_stopped", <<>>),
              "stop_monitoring", <<>>, <<>>)
    /\ UNCHANGED now

\* monitor(): a pass of the loop of _continuous_monitor, or a caller's own
\* call of the public method; the pass is the same with monitoring active
\* or not.
MonitorPass ==
    /\ UNCHANGED <<lvars, cvars>>
    /\ steps < MaxOps
    /\ \E r \in {Monitor(World)} :
          Commit(r.w, "monitor", <<>>, r.ret)
    /\ UNCHANGED <<now, monitoring_active, watchdog_running>>

\* A pass of the loop of _monitor_heartbeat, while the watchdog runs.
WatchdogCycle ==
    /\ UNCHANGED <<lvars, cvars>>
    /\ steps < MaxOps
    /\ watchdog_running
    /\ \E r \in {MonitorHeartbeat(World)} :
          Commit(r.w, "watchdog_cycle", <<>>, r.ret)
    /\ UNCHANGED <<now, monitoring_active, watchdog_running>>

\* Time passes.
Tick ==
    /\ UNCHANGED <<lvars, cvars>>
    /\ steps < MaxOps
    /\ \E d \in ClockSteps : now' = now + d
    /\ op' = [name |-> "tick", arg |-> <<>>, ret |-> <<>>, activations |-> 0]
    /\ steps' = steps + 1
    /\ audit' = <<>>
    /\ UNCHANGED <<state, integrity_hash, state_history, quarantined_inputs,
                   safe_mode_history, alert_history, validation_history,
                   anomaly_history, monitoring_active, watchdog_running>>

(***************************************************************************)
(* The audit logger.                                                       *)
(***************************************************************************)
\* The rotation modulus of log_event.  The source rotates when
\* sequence % 1000 == 0; the model keeps the test and scales the modulus,
\* so that the append that crosses it is reached.
ROTATE_EVERY == 3

\* ImmutableAuditLogger.backup_count
backup_count == 5

\* A data payload: a dict, of which the model keeps a body, the Python type
\* of the keys of a dict in it and those keys (numbers below 100; a str key
\* is the decimal numeral).
Payload(body, key_type, keys) ==
    [body |-> body, key_type |-> key_type, keys |-> keys]

Digits(n) == IF n < 10 THEN <<n>> ELSE <<n \div 10, n % 10>>

\* The order of str keys: of the numerals, character by character.
LexLess(a, b) ==
    LET da == Digits(a)
        db == Digits(b)
    IN \/ da[1] < db[1]
       \/ /\ da[1] = db[1]
          /\ \/ Len(da) < Len(db)
             \/ Len(da) = 2 /\ Len(db) = 2 /\ da[2] < db[2]

\* The order sort_keys=True puts the keys in: int keys as numbers, str keys
\* as strings.
KeyLess(key_type, a, b) == IF key_type = "int" THEN a < b ELSE LexLess(a, b)

RECURSIVE SortKeys(_, _)
SortKeys(key_type, keys) ==
    IF keys = {}
    THEN <<>>
    ELSE LET least == CHOOSE k \in keys :
                         \A j \in keys \ {k} : KeyLess(key_type, k, j)
         IN <<least>> \o SortKeys(key_type, keys \ {least})

\* json.dumps(data, sort_keys=True): the text, as the body and the keys in
\* the order they are written; a key is written as its numeral whatever its
\* type.
JsonDumpsSorted(data) == <<data.body, SortKeys(data.key_type, data.keys)>>

\* json.loads(json.dumps(data)): what a reader of the file gets back, every
\* key a str.
JsonRoundTrip(data) == [data EXCEPT !.key_type = "str"]

\* hashlib.sha256(...).hexdigest() of the canonical JSON of an entry without
\* its entry_hash; the digest is modelled as the injective image of the text.
EntryHash(entry) ==
    <<"sha256", entry.type, JsonDumpsSorted(entry.data), entry.security_level,
      entry.sequence, entry.previous_hash>>

\* hashlib.sha256("GENESIS_BLOCK".encode()).hexdigest()
GenesisHash == <<"sha256", "GENESIS_BLOCK">>

AbsentFile == [exists |-> FALSE, lines |-> <<>>]

\* An entry as log_event builds it, and the line of it a reader parses.
MakeEntry(type, data, security_level, sequence, previous_hash) ==
    LET e == [sequence |-> sequence, type |-> type, data |-> data,
              security_level |-> security_level,
              previous_hash |-> previous_hash, entry_hash |-> <<>>]
    IN [e EXCEPT !.entry_hash = EntryHash(e), !.data = JsonRoundTrip(data)]

\* The genesis entry of _initialize_log_file; it has no security_level key.
GenesisEntry(previous_hash) ==
    MakeEntry("system_initialization", Payload("audit_system_initialized", "str", {1}),
              "absent", 0, previous_hash)

\* The line a write leaves when it fails after a part of the text reached
\* the file: the text of the entry cut before its end, with no newline.
PartialLine(entry) == [entry EXCEPT !.entry_hash = <<"partial line">>]

\* json.loads(line) raises on a text cut before its end.
JsonLoadsRaises(line) == line.entry_hash = <<"partial line">>

\* _get_next_sequence; the except clause answers 0.
GetNextSequence(file) ==
    IF ~file.exists THEN 0
    ELSE IF Len(file.lines) = 0 THEN 0
    ELSE IF JsonLoadsRaises(file.lines[Len(file.lines)]) THEN 0
    ELSE file.lines[Len(file.lines)].sequence + 1

\* The renames of _rotate_logs: generation i becomes i + 1 for
\* i = backup_count - 1 down to 1, and the active file becomes generation 1.
RotatedBackups(bk, file) ==
    [i \in 1..backup_count |->
        IF i = 1 THEN (IF file.exists THEN file ELSE AbsentFile)
        ELSE IF bk[i - 1].exists THEN bk[i - 1]
        ELSE IF i = backup_count THEN bk[i]
        ELSE AbsentFile]

\* The check with the linkage taken against the recomputed hash of the
\* entry before, in the place of its stored entry_hash.
IssuesAtRecomputed(lines, i) ==
    LET entry == lines[i]
    IN (IF entry.entry_hash # EntryHash(entry)
        THEN <<[sequence |-> entry.sequence, issue |-> "hash_mismatch"]>>
        ELSE <<>>)
       \o
       (IF i > 1 /\ entry.previous_hash # EntryHash(lines[i - 1])
        THEN <<[sequence |-> entry.sequence, issue |-> "chain_break"]>>
        ELSE <<>>)

\* The issues verify_integrity_chain collects at entry i of the file, the
\* hash_mismatch before the chain_break.
IssuesAt(lines, i) ==
    LET entry == lines[i]
    IN (IF entry.entry_hash # EntryHash(entry)
        THEN <<[sequence |-> entry.sequence, issue |-> "hash_mismatch"]>>
        ELSE <<>>)
       \o
       (IF i > 1 /\ entry.previous_hash # lines[i - 1].entry_hash
        THEN <<[sequence |-> entry.sequence, issue |-> "chain_break"]>>
        ELSE <<>>)

RECURSIVE IssuesFrom(_, _)
IssuesFrom(lines, i) ==
    IF i > Len(lines) THEN <<>>
    ELSE IssuesAt(lines, i) \o IssuesFrom(lines, i + 1)

\* verify_integrity_chain
VerifyIntegrityChain(file) ==
    IF ~file.exists
    THEN [status |-> "error", entries |-> 0, integrity_issues |-> <<>>]
    ELSE IF Len(file.lines) = 0
    THEN [status |-> "empty", entries |-> 0, integrity_issues |-> <<>>]
    ELSE LET issues == IssuesFrom(file.lines, 1)
         IN [status |-> IF issues = <<>> THEN "verified" ELSE "compromised",
             entries |-> Len(file.lines), integrity_issues |-> issues]

(***************************************************************************)
(* The logger specification: appends, verification, and a modification of  *)
(* the persisted file by a party outside the program.                      *)
(***************************************************************************)
\* What callers log.
LogTypes == {"kernel_state"}
LogLevels == {"normal", "critical"}
LogPayloads == {Payload("a", "str", {1}), Payload("b", "str", {9, 10}),
                Payload("c", "int", {9, 10})}

\* The logger after construction on a directory with no log file:
\* _initialize_hash_chain, then _initialize_log_file.
InitLog ==
    /\ log_file = [exists |-> TRUE, lines |-> <<GenesisEntry(GenesisHash)>>]
    /\ last_hash = GenesisEntry(GenesisHash).entry_hash
    /\ backups = [i \in 1..backup_count |-> AbsentFile]
    /\ integrity_chain = <<>>
    /\ log_lock = "free"
    /\ verify_result = [status |-> "none", entries |-> 0,
                        integrity_issues |-> <<>>]
    /\ tamper = [part |-> "none", index |-> 0]

\* ImmutableAuditLogger.log_event(event_type, data, security_level).  The
\* call holds log_lock throughout.  When the sequence number is a multiple
\* of the modulus it calls _rotate_logs, which renames the files and calls
\* _initialize_log_file; that takes log_lock, a threading.Lock the call
\* already holds, and the call stays there.
LogEventCall ==
    /\ UNCHANGED <<kvars, cvars>>
    /\ log_lock = "free"
    /\ \E type \in LogTypes, data \in LogPayloads, security_level \in LogLevels :
          LET sequence == GetNextSequence(log_file)
              entry == MakeEntry(type, data, security_level, sequence, last_hash)
              written == [exists |-> TRUE,
                          lines |-> Append(log_file.lines, entry)]
          IN /\ last_hash' = entry.entry_hash
             /\ integrity_chain' = Append(integrity_chain,
                                          [sequence |-> sequence,
                                           hash |-> entry.entry_hash])
             /\ IF sequence % ROTATE_EVERY = 0
                THEN /\ backups' = RotatedBackups(backups, written)
                     /\ log_file' = AbsentFile
                     /\ log_lock' = "log_event"
                ELSE /\ log_file' = written
                     /\ log_lock' = "free"
                     /\ UNCHANGED backups
    /\ UNCHANGED <<verify_result, tamper>>

\* verify_integrity_chain(), which takes no lock.
VerifyIntegrityChainCall ==
    /\ UNCHANGED <<kvars, cvars>>
    /\ verify_result' = VerifyIntegrityChain(log_file)
    /\ UNCHANGED <<log_file, backups, last_hash, integrity_chain, log_lock,
                   tamper>>

\* The values a modification may put in the place of a hash.
HashValues(file) ==
    {<<"sha256", "forged">>, GenesisHash}
    \cup {file.lines[i].entry_hash : i \in 1..Len(file.lines)}
    \cup {EntryHash(file.lines[i]) : i \in 1..Len(file.lines)}

\* Somebody modifies one part of one entry of the persisted file, once.
TamperFile ==
    /\ UNCHANGED <<kvars, cvars>>
    /\ tamper.part = "none"
    /\ log_file.exists
    /\ \E i \in 1..Len(log_file.lines) :
          \/ /\ \E d \in {Payload("forged", "str", {1}), Payload("a", "str", {1})}
                         \ {log_file.lines[i].data} :
                   log_file' = [log_file EXCEPT !.lines[i].data = d]
             /\ tamper' = [part |-> "data", index |-> i]
          \/ /\ \E h \in HashValues(log_file) \ {log_file.lines[i].previous_hash} :
                   log_file' = [log_file EXCEPT !.lines[i].previous_hash = h]
             /\ tamper' = [part |-> "previous_hash", index |-> i]
          \/ /\ \E h \in HashValues(log_file) \ {log_file.lines[i].entry_hash} :
                   log_file' = [log_file EXCEPT !.lines[i].entry_hash = h]
             /\ tamper' = [part |-> "entry_hash", index |-> i]
    /\ UNCHANGED <<backups, last_hash, integrity_chain, log_lock, verify_result>>

(***************************************************************************)
(* The specifications.                                                     *)
(***************************************************************************)
\* No call is in flight.
NoThreads == <<>>

Init == InitKernel /\ InitLog /\ threads = NoThreads /\ log_writable = TRUE

Next ==
    \/ UpdateKernelStateCall
    \/ ActivateSafeModeCall
    \/ DeactivateSafeModeCall
    \/ QuarantineInputCall
    \/ ReleaseQuarantineCall
    \/ EmergencyShutdownCall
    \/ StartMonitoring
    \/ StopMonitoring
    \/ MonitorPass
    \/ WatchdogCycle
    \/ Tick

Spec == Init /\ [][Next]_vars

NextLog ==
    \/ LogEventCall
    \/ VerifyIntegrityChainCall
    \/ TamperFile

SpecLog == Init /\ [][NextLog]_vars

(***************************************************************************)
(* The kernel with concurrent callers.  EuystacioKernelState holds no      *)
(* lock: two threads in update_state and one in get_state_copy interleave  *)
(* between the statements of the methods.  Each thread makes one call.     *)
(***************************************************************************)
Updaters == {"u1", "u2"}
Readers == {"r1"}

\* The updates maps the concurrent callers pass.
ThreadUpdates ==
    {<<Item("trust", Num(2)), Item("harmony", Num(2))>>,
     <<Item("emotion", Str("Anger"))>>,
     <<Item("trust", Num(5)), Item("harmony", Num(50))>>}

\* A thread that has not called yet.
IdleThread ==
    [pc |-> "idle", updates |-> <<>>, i |-> 0, ret |-> "none",
     reason |-> "none", copy |-> <<>>]

InitKernelThreads ==
    /\ InitKernel
    /\ InitLog
    /\ threads = [t \in Updaters \cup Readers |-> IdleThread]
    /\ log_writable = TRUE

\* What a step of a thread leaves alone besides the state, its hash, its
\* history and the audit entries.
ThreadFrame ==
    /\ UNCHANGED <<lvars, log_writable>>
    /\ UNCHANGED <<quarantined_inputs, safe_mode_history, alert_history,
                   validation_history, anomaly_history, monitoring_active,
                   watchdog_running, now, op, steps>>

\* update_state, lines 44-49: the integrity check, and with it passed the
\* copy of the previous state.
UpdateStateVerify ==
    /\ ThreadFrame
    /\ \E t \in Updaters, updates \in ThreadUpdates :
          /\ threads[t].pc = "idle"
          /\ IF VerifyIntegrity(World)
             THEN /\ threads' = [threads EXCEPT ![t].pc = "apply",
                                                ![t].updates = updates,
                                                ![t].i = 1]
                  /\ audit' = <<>>
             ELSE /\ threads' = [threads EXCEPT ![t].pc = "done",
                                                ![t].updates = updates,
                                                ![t].ret = "False",
                                                ![t].reason = "integrity"]
                  /\ audit' = <<[type |-> "kernel_state",
                                 action |-> "integrity_compromised_before_update",
                                 info |-> <<t>>]>>
    /\ UNCHANGED <<state, integrity_hash, state_history>>

\* update_state, lines 52-64: one pass of the loop over updates.items().
UpdateStateItem ==
    /\ ThreadFrame
    /\ \E t \in Updaters :
          /\ threads[t].pc = "apply"
          /\ threads[t].i <= Len(threads[t].updates)
          /\ LET key == threads[t].updates[threads[t].i].key
                 val == threads[t].updates[threads[t].i].val
             IN IF key \notin StateKeys
                THEN /\ threads' = [threads EXCEPT ![t].i = @ + 1]
                     /\ UNCHANGED <<state, audit>>
                ELSE IF ValidateStateChange(key, val)
                THEN /\ state' = [state EXCEPT ![key] = StoredValue(key, val)]
                     /\ threads' = [threads EXCEPT ![t].i = @ + 1]
                     /\ audit' = <<>>
                ELSE /\ threads' = [threads EXCEPT ![t].pc = "done",
                                                   ![t].ret = "False",
                                                   ![t].reason = "invalid"]
                     /\ audit' = <<[type |-> "kernel_state",
                                    action |-> "invalid_state_change_rejected",
                                    info |-> <<key, t>>]>>
                     /\ UNCHANGED state
    /\ UNCHANGED <<integrity_hash, state_history>>

\* update_state, lines 67-76: the metadata and the history record.
UpdateStateMetadata ==
    /\ ThreadFrame
    /\ \E t \in Updaters :
          /\ threads[t].pc = "apply"
          /\ threads[t].i > Len(threads[t].updates)
          /\ state' = [state EXCEPT !.last_updated = now, !.heartbeat = now]
          /\ state_history' = Append(state_history,
                                     [timestamp |-> now,
                                      previous_state |-> state,
                                      updates |-> threads[t].updates,
                                      source |-> <<t>>])
          /\ threads' = [threads EXCEPT ![t].pc = "rehash"]
    /\ audit' = <<>>
    /\ UNCHANGED integrity_hash

\* update_state, lines 78-88: the new hash, the log entry and the return.
UpdateStateRehash ==
    /\ ThreadFrame
    /\ \E t \in Updaters :
          /\ threads[t].pc = "rehash"
          /\ integrity_hash' = CalculateHash(state)
          /\ threads' = [threads EXCEPT ![t].pc = "done", ![t].ret = "True"]
          /\ audit' = <<[type |-> "kernel_state", action |-> "state_updated",
                         info |-> <<t>>]>>
    /\ UNCHANGED <<state, state_history>>

\* get_state_copy, lines 113-115: the integrity check.
GetStateCopyVerify ==
    /\ ThreadFrame
    /\ \E t \in Readers :
          /\ threads[t].pc = "idle"
          /\ IF VerifyIntegrity(World)
             THEN /\ threads' = [threads EXCEPT ![t].pc = "copy"]
                  /\ audit' = <<>>
             ELSE /\ threads' = [threads EXCEPT ![t].pc = "done",
                                                ![t].ret = "empty",
                                                ![t].reason = "integrity"]
                  /\ audit' = <<[type |-> "kernel_state",
                                 action |-> "integrity_compromised_during_read",
                                 info |-> <<>>]>>
    /\ UNCHANGED <<state, integrity_hash, state_history>>

\* get_state_copy, line 116: the copy.
GetStateCopyReturn ==
    /\ ThreadFrame
    /\ \E t \in Readers :
          /\ threads[t].pc = "copy"
          /\ threads' = [threads EXCEPT ![t].pc = "done", ![t].ret = "copy",
                                        ![t].copy = <<state>>]
    /\ audit' = <<>>
    /\ UNCHANGED <<state, integrity_hash, state_history>>

NextKernelThreads ==
    \/ UpdateStateVerify
    \/ UpdateStateItem
    \/ UpdateStateMetadata
    \/ UpdateStateRehash
    \/ GetStateCopyVerify
    \/ GetStateCopyReturn

SpecKernelThreads == InitKernelThreads /\ [][NextKernelThreads]_vars

(***************************************************************************)
(* The logger with concurrent callers: threads that call log_event again   *)
(* and again, each statement group of the method a step.                   *)
(***************************************************************************)
LogThreads == {"l1", "l2"}

IdleLogThread ==
    [pc |-> "idle", type |-> "", data |-> <<>>, security_level |-> "",
     entry |-> <<>>, returned |-> 0]

InitLogThreads ==
    /\ InitKernel
    /\ InitLog
    /\ threads = [t \in LogThreads |-> IdleLogThread]
    /\ log_writable = TRUE

\* The lock is ignored.
LockIgnored(lock) == TRUE

\* threading.Lock.acquire: the lock is free.  The lock is not reentrant: a
\* thread that holds it and asks for it again waits as any other does.
LockFree(lock) == lock = "free"

\* "with self.log_lock:", of log_event (line 89) by an idle thread, and of
\* _initialize_log_file (line 55) by the thread that _rotate_logs has
\* brought there, which then runs the method, returns through _rotate_logs
\* to log_event and returns the entry hash.
LogLockAcquire ==
    /\ UNCHANGED <<kvars, backups, integrity_chain, verify_result, tamper,
                   log_writable>>
    /\ LockFree(log_lock)
    /\ \E t \in LogThreads :
          IF threads[t].pc = "idle"
          THEN /\ \E type \in LogTypes, data \in LogPayloads,
                     security_level \in LogLevels :
                     threads' = [threads EXCEPT ![t].pc = "build",
                                                ![t].type = type,
                                                ![t].data = data,
                                                ![t].security_level = security_level]
               /\ log_lock' = t
               /\ UNCHANGED <<log_file, last_hash>>
          ELSE /\ threads[t].pc = "initialize"
               /\ IF log_file.exists
                  THEN /\ last_hash' = log_file.lines[Len(log_file.lines)].entry_hash
                       /\ UNCHANGED log_file
                  ELSE /\ log_file' = [exists |-> TRUE,
                                       lines |-> <<GenesisEntry(last_hash)>>]
                       /\ last_hash' = GenesisEntry(last_hash).entry_hash
               /\ log_lock' = "free"
               /\ threads' = [threads EXCEPT ![t].pc = "idle",
                                             ![t].returned = 1]

\* log_event, lines 91-112: the sequence number and the entry with its hash.
LogEventBuild ==
    /\ UNCHANGED <<kvars, lvars, log_writable>>
    /\ \E t \in LogThreads :
          /\ threads[t].pc = "build"
          /\ threads' = [threads EXCEPT
                ![t].pc = "write",
                ![t].entry = MakeEntry(threads[t].type, threads[t].data,
                                       threads[t].security_level,
                                       GetNextSequence(log_file), last_hash)]

\* log_event, lines 115-116: the line appended to the file.
LogEventWrite ==
    /\ UNCHANGED <<kvars, backups, last_hash, integrity_chain, log_lock,
                   verify_result, tamper, log_writable>>
    /\ \E t \in LogThreads :
          /\ threads[t].pc = "write"
          /\ log_file' = [exists |-> TRUE,
                          lines |-> Append(log_file.lines, threads[t].entry)]
          /\ threads' = [threads EXCEPT ![t].pc = "chain"]

\* log_event, lines 119-130: the head hash, the chain in memory, and either
\* the call of _rotate_logs or the return, which releases log_lock.
LogEventChain ==
    /\ UNCHANGED <<kvars, log_file, backups, verify_result, tamper,
                   log_writable>>
    /\ \E t \in LogThreads :
          /\ threads[t].pc = "chain"
          /\ last_hash' = threads[t].entry.entry_hash
          /\ integrity_chain' = Append(integrity_chain,
                                       [sequence |-> threads[t].entry.sequence,
                                        hash |-> threads[t].entry.entry_hash])
          /\ IF threads[t].entry.sequence % ROTATE_EVERY = 0
             THEN /\ threads' = [threads EXCEPT ![t].pc = "rotate"]
                  /\ UNCHANGED log_lock
             ELSE /\ threads' = [threads EXCEPT ![t].pc = "idle",
                                                ![t].returned = 1]
                  /\ log_lock' = "free"

\* _rotate_logs, lines 249-260: the renames, up to the call of
\* _initialize_log_file.
RotateLogs ==
    /\ UNCHANGED <<kvars, last_hash, integrity_chain, log_lock, verify_result,
                   tamper, log_writable>>
    /\ \E t \in LogThreads :
          /\ threads[t].pc = "rotate"
          /\ backups' = RotatedBackups(backups, log_file)
          /\ log_file' = AbsentFile
          /\ threads' = [threads EXCEPT ![t].pc = "initialize"]

NextLogThreads ==
    \/ LogLockAcquire
    \/ LogEventBuild
    \/ LogEventWrite
    \/ LogEventChain
    \/ RotateLogs

SpecLogThreads == InitLogThreads /\ [][NextLogThreads]_vars

\* The scheduler runs a thread that can run.
SpecLogThreadsFair == SpecLogThreads /\ WF_vars(NextLogThreads)

(***************************************************************************)
(* The background loops when the log file cannot be written.  While        *)
(* log_writable is false every log_event raises "Audit logging failure"    *)
(* (log_event, lines 132-151); the handler stops at its first log_event.   *)
(***************************************************************************)
LoopThreads == {"monitor", "watchdog"}

\* monitor() with every log_event raising: what it has done when it raises,
\* and whether it raises.  get_state_copy logs, and raises, on a corrupted
\* state; _process_threats appends the first anomaly record and then logs.
MonitorLogFailing(w) ==
    LET c == GetStateCopy(w)
    IN IF ~c.ok
       THEN [w |-> w, raised |-> TRUE]
       ELSE LET threats == ThreatIndicators(c)
            IN IF Len(threats) > 0
               THEN [w |-> [w EXCEPT !.ah = Append(@, [timestamp |-> w.t,
                                                       threat |-> threats[1]])],
                     raised |-> TRUE]
               ELSE [w |-> w, raised |-> FALSE]

\* The body of the loop of _monitor_heartbeat with every log_event raising:
\* the log_event of the timeout comes before activate_safe_mode.
MonitorHeartbeatLogFailing(w) ==
    [w |-> w, raised |-> HeartbeatTimeout(w)]

\* The updates maps of the callers of this specification.
LoopUpdates ==
    {<<Item("trust", Num(2)), Item("harmony", Num(2))>>,
     <<Item("trust", Num(5)), Item("harmony", Num(50))>>,
     <<Item("emotion", Str("Anger"))>>}

InitLoops ==
    /\ InitKernel
    /\ InitLog
    /\ threads = [t \in LoopThreads |-> [pc |-> "not_started"]]
    /\ log_writable = TRUE

\* update_kernel_state(updates, source), the log writable
LoopsUpdate ==
    /\ UNCHANGED <<lvars, cvars>>
    /\ steps < MaxOps
    /\ log_writable
    /\ \E updates \in LoopUpdates :
          \E r \in {UpdateState(World, updates, <<"api">>)} :
             Commit(r.w, "update_kernel_state", updates, r.ret)
    /\ UNCHANGED <<now, monitoring_active, watchdog_running>>

\* start_monitoring(), the log writable: the two threads start.
LoopsStart ==
    /\ UNCHANGED <<lvars, log_writable>>
    /\ steps < MaxOps
    /\ log_writable
    /\ ~monitoring_active
    /\ monitoring_active' = TRUE
    /\ watchdog_running' = TRUE
    /\ threads' = [t \in LoopThreads |-> [pc |-> "running"]]
    /\ Commit(SendAlert(LogEvent(LogEvent(World, "watchdog", "started",
                                          <<timeout_seconds>>),
                                 "guardian", "monitoring_started", <<>>),
                        "Guardian monitoring activated", "info"),
              "start_monitoring", <<>>, <<>>)
    /\ UNCHANGED now

\* The log file stops being writable (a full disk, a lost permission), or
\* is writable again.
LogWritableChanges ==
    /\ UNCHANGED <<lvars, threads>>
    /\ steps < MaxOps
    /\ log_writable' = ~log_writable
    /\ Commit(World, "log_writable_changes", <<>>,
              <<IF log_writable' THEN "writable" ELSE "unwritable">>)
    /\ UNCHANGED <<now, monitoring_active, watchdog_running>>

\* One pass of the loop of _continuous_monitor (lines 200-206).  An
\* exception of monitor() is caught, and the handler calls log_event: when
\* that raises too, the exception leaves the loop and the thread ends.
GuardianLoopPass ==
    /\ UNCHANGED <<lvars, log_writable>>
    /\ steps < MaxOps
    /\ threads["monitor"].pc = "running"
    /\ monitoring_active
    /\ IF log_writable
       THEN /\ \E r \in {Monitor(World)} : Commit(r.w, "monitor", <<>>, r.ret)
            /\ UNCHANGED threads
       ELSE \E r \in {MonitorLogFailing(World)} :
               /\ Commit(r.w, "monitor", <<>>,
                         IF r.raised THEN <<"raised">> ELSE <<"normal", "none", <<>>>>)
               /\ threads' = [threads EXCEPT
                     !["monitor"].pc = IF r.raised THEN "ended" ELSE "running"]
    /\ UNCHANGED <<now, monitoring_active, watchdog_running>>

\* One pass of the loop of _monitor_heartbeat (lines 47-61), with the same
\* handler.
WatchdogLoopPass ==
    /\ UNCHANGED <<lvars, log_writable>>
    /\ steps < MaxOps
    /\ threads["watchdog"].pc = "running"
    /\ watchdog_running
    /\ IF log_writable
       THEN /\ \E r \in {MonitorHeartbeat(World)} :
                  Commit(r.w, "watchdog_cycle", <<>>, r.ret)
            /\ UNCHANGED threads
       ELSE \E r \in {MonitorHeartbeatLogFailing(World)} :
               /\ Commit(r.w, "watchdog_cycle", <<>>,
                         IF r.raised THEN <<"raised">> ELSE FALSE)
               /\ threads' = [threads EXCEPT
                     !["watchdog"].pc = IF r.raised THEN "ended" ELSE "running"]
    /\ UNCHANGED <<now, monitoring_active, watchdog_running>>

NextLoops ==
    \/ LoopsUpdate
    \/ LoopsStart
    \/ LogWritableChanges
    \/ GuardianLoopPass
    \/ WatchdogLoopPass
    \/ Tick

SpecLoops == InitLoops /\ [][NextLoops]_vars

(***************************************************************************)
(* One scan pass from every kernel state.  The fields are any values the   *)
(* validators accept, the anomaly history is empty or holds five records   *)
(* of this minute.                                                         *)
(***************************************************************************)
\* The (emotion, context) pairs of the scanned states: one plain pair and
\* two of the anomalous pairs.
ScanMoods == {<<"Calm", "Calm">>, <<"Anger", "Calm">>, <<"Love", "Crisis">>}

\* anomaly_history after five anomalies were recorded at clock t.
FiveAnomalies(t) ==
    [i \in 1..5 |-> [timestamp |-> t,
                     threat |-> Threat("trust_anomaly", "medium")]]

InitScan ==
    /\ now = 1
    /\ \E trust \in 0..10, harmony \in 0..10, mood \in ScanMoods,
          safe \in BOOLEAN :
          state = [InitialState(1) EXCEPT !.trust = trust,
                                          !.harmony = harmony,
                                          !.emotion = mood[1],
                                          !.context = mood[2],
                                          !.safe_mode = safe]
    /\ integrity_hash = CalculateHash(state)
    /\ state_history = <<>>
    /\ quarantined_inputs = <<>>
    /\ safe_mode_history = <<>>
    /\ alert_history = <<>>
    /\ validation_history = <<>>
    /\ anomaly_history \in {<<>>, FiveAnomalies(1)}
    /\ monitoring_active = TRUE
    /\ watchdog_running = FALSE
    /\ audit = <<>>
    /\ op = NoOp
    /\ steps = 0
    /\ InitLog
    /\ threads = NoThreads
    /\ log_writable = TRUE

NextScan ==
    \/ MonitorPass
    \/ Tick

SpecScan == InitScan /\ [][NextScan]_vars

(***************************************************************************)
(* Input validation.                                                       *)
(***************************************************************************)
\* A field the input dict does not have.
Absent == [t |-> "absent", v |-> ""]

\* An input dict: its emotion and context, and whether its text holds one
\* of the substrings <script>, javascript:, eval(, exec(.
Input(emotion, context, script) ==
    [emotion |-> emotion, context |-> context, script |-> script]

\* validate_input_integrity(data): the log entry of the branch taken, and
\* the answer.
ValidateInputIntegrity(w, data) ==
    IF data.emotion = Absent \/ data.context = Absent
    THEN [w |-> LogEvent(w, "input_validation", "missing_required_field", <<>>),
          ret |-> FALSE]
    ELSE IF data.emotion.t # "str" \/ data.context.t # "str"
    THEN [w |-> LogEvent(w, "input_validation", "invalid_data_types", <<>>),
          ret |-> FALSE]
    ELSE IF ~ValidateStateChange("emotion", data.emotion)
    THEN [w |-> LogEvent(w, "input_validation", "invalid_emotion_value", <<>>),
          ret |-> FALSE]
    ELSE IF ~ValidateStateChange("context", data.context)
    THEN [w |-> LogEvent(w, "input_validation", "invalid_context_value", <<>>),
          ret |-> FALSE]
    ELSE [w |-> LogEvent(w, "input_validation", "validation_passed", <<>>),
          ret |-> TRUE]

\* _detect_malicious_patterns(input_data), of an input that has both fields
DetectMaliciousPatterns(data) ==
    \/ data.script
    \/ (data.emotion.v = "Love" /\ data.context.v = "Crisis")

\* _check_rate_limiting(input_data), the local zone being UTC
CheckRateLimiting(w) ==
    Cardinality({i \in 1..Len(w.ah) : w.t - w.ah[i].timestamp < 60}) > 100

\* EuystacioHelmiGuardian.validate_input(input_data).  digest is whether
\* hashlib.md5 answers at line 456: a build of OpenSSL that forbids MD5
\* raises there, which the except of line 461 catches.
ValidateInput(w, data, digest) ==
    LET v == ValidateInputIntegrity(w, data)
    IN IF ~v.ret
       THEN [w |-> QuarantineInput(v.w, data,
                                   "Failed basic integrity validation").w,
             ret |-> FALSE]
       ELSE IF DetectMaliciousPatterns(data)
       THEN [w |-> QuarantineInput(v.w, data,
                                   "Suspicious input patterns detected").w,
             ret |-> FALSE]
       ELSE IF CheckRateLimiting(v.w)
       THEN [w |-> QuarantineInput(v.w, data,
                                   "Rate limiting threshold exceeded").w,
             ret |-> FALSE]
       ELSE IF digest
       THEN [w |-> LogEvent(v.w, "input_validation",
                            "guardian_validation_passed", <<>>),
             ret |-> TRUE]
       ELSE [w |-> LogEvent(v.w, "input_validation",
                            "guardian_validation_error", <<>>),
             ret |-> FALSE]

\* The input dicts callers pass.
InputData ==
    {Input(Str("Love"), Str("Calm"), FALSE),
     Input(Str("Love"), Str("Peaceful"), FALSE),
     Input(Str("Anger"), Str("Calm"), FALSE),
     Input(Str("Fear"), Str("Peaceful"), FALSE),
     Input(Str("Love"), Str("Crisis"), FALSE),
     Input(Str("InvalidEmotion"), Str("Calm"), FALSE),
     Input(Str("Anger"), Absent, FALSE),
     Input(Num(5), Str("Calm"), FALSE),
     Input(Str("Joy"), Str("Nowhere"), FALSE),
     Input(Str("Love"), Str("Calm"), TRUE)}

\* anomaly_history after more than a hundred anomalies were recorded at
\* clock t.
ManyAnomalies(t) ==
    [i \in 1..101 |-> [timestamp |-> t,
                       threat |-> Threat("trust_anomaly", "medium")]]

InitInputs ==
    /\ now = 1
    /\ state = InitialState(1)
    /\ integrity_hash = CalculateHash(state)
    /\ state_history = <<>>
    /\ quarantined_inputs = <<>>
    /\ safe_mode_history = <<>>
    /\ alert_history = <<>>
    /\ validation_history = <<>>
    /\ anomaly_history \in {<<>>, ManyAnomalies(1)}
    /\ monitoring_active = FALSE
    /\ watchdog_running = FALSE
    /\ audit = <<>>
    /\ op = NoOp
    /\ steps = 0
    /\ InitLog
    /\ threads = NoThreads
    /\ log_writable = TRUE

\* guardian.validate_input(input_data)
ValidateInputCall ==
    /\ UNCHANGED <<lvars, cvars>>
    /\ steps < MaxOps
    /\ \E data \in InputData, digest \in BOOLEAN :
          \E r \in {ValidateInput(World, data, digest)} :
             Commit(r.w, "validate_input", data, r.ret)
    /\ UNCHANGED <<now, monitoring_active, watchdog_running>>

NextInputs ==
    \/ ValidateInputCall
    \/ ReleaseQuarantineCall
    \/ Tick

SpecInputs == InitInputs /\ [][NextInputs]_vars

(***************************************************************************)
(* quarantine_input with concurrent callers.  QuarantineManager has no     *)
(* lock: a thread may be switched between any two statements of            *)
(* quarantine_input.                                                       *)
(***************************************************************************)
QuarantineThreads == {"q1", "q2"}

IdleQuarantineThread == [pc |-> "idle", id |-> <<>>]

InitQuarantineThreads ==
    /\ InitKernel
    /\ InitLog
    /\ threads = [t \in QuarantineThreads |-> IdleQuarantineThread]
    /\ log_writable = TRUE

\* What a step of quarantine_input leaves alone.
QuarantineFrame ==
    /\ UNCHANGED <<lvars, log_writable>>
    /\ UNCHANGED <<state, integrity_hash, state_history, safe_mode_history,
                   alert_history, validation_history, anomaly_history,
                   monitoring_active, watchdog_running, now, op>>

\* quarantine_input, line 23: the id, of the clock and of the length of the
\* list as the thread reads them.
QuarantineInputId ==
    /\ QuarantineFrame
    /\ steps < MaxOps
    /\ \E t \in QuarantineThreads :
          /\ threads[t].pc = "idle"
          /\ threads' = [threads EXCEPT
                            ![t].pc = "append",
                            ![t].id = <<"q", now, Len(quarantined_inputs)>>]
    /\ steps' = steps + 1
    /\ audit' = <<>>
    /\ UNCHANGED quarantined_inputs

\* quarantine_input, lines 25-34: the record, appended.
QuarantineInputAppend ==
    /\ QuarantineFrame
    /\ \E t \in QuarantineThreads :
          /\ threads[t].pc = "append"
          /\ quarantined_inputs' =
                Append(quarantined_inputs,
                       [id |-> threads[t].id, timestamp |-> now,
                        data |-> "input", reason |-> "reason",
                        status |-> "quarantined", released_by |-> "",
                        released_at |-> 0])
          /\ threads' = [threads EXCEPT ![t].pc = "log"]
    /\ audit' = <<>>
    /\ UNCHANGED steps

\* quarantine_input, lines 36-43: the log entry and the return of the id.
QuarantineInputLog ==
    /\ QuarantineFrame
    /\ \E t \in QuarantineThreads :
          /\ threads[t].pc = "log"
          /\ audit' = <<[type |-> "input_quarantine",
                         action |-> "input_quarantined",
                         info |-> <<threads[t].id, "reason">>]>>
          /\ threads' = [threads EXCEPT ![t].pc = "idle"]
    /\ UNCHANGED <<quarantined_inputs, steps>>

NextQuarantineThreads ==
    \/ QuarantineInputId
    \/ QuarantineInputAppend
    \/ QuarantineInputLog
    \/ Tick

SpecQuarantineThreads == InitQuarantineThreads /\ [][NextQuarantineThreads]_vars

(***************************************************************************)
(* A scan pass in which a detector raises.  monitor() calls the five       *)
(* detectors one after the other with no try around any of them: an        *)
(* exception leaves monitor() at the call that raised and is caught by     *)
(* the except of the loop of _continuous_monitor.                          *)
(***************************************************************************)
\* The detectors in the order monitor() calls them.
Detectors == <<"trust", "harmony", "emotional", "behavior", "integrity">>

\* What the detector of this name finds in the state copy c.
DetectorFinds(name, c) ==
    CASE name = "trust" -> DetectTrustAnomaly(c.st)
      [] name = "harmony" -> DetectHarmonyAnomaly(c.st)
      [] name = "emotional" -> DetectEmotionalAnomaly(c.st)
      [] name = "behavior" -> AnalyzeBehaviorPatterns(c.w)
      [] name = "integrity" -> VerifyStateIntegrity(c.st)

\* One pass of the loop of _continuous_monitor in which the k-th detector
\* raises: threat_indicators is dropped with the frame of monitor(),
\* _process_threats is not reached, and the loop logs the error.
MonitorDetectorRaising(w, k) ==
    LET c == GetStateCopy(w)
    IN IF ~c.ok
       THEN [w |-> LogEvent(c.w, "guardian", "unable_to_retrieve_state", <<>>),
             ret |-> <<"error", "state_unavailable", <<>>>>]
       ELSE [w |-> LogEvent(c.w, "guardian", "monitoring_loop_error",
                            <<Detectors[k]>>),
             ret |-> <<"raised", "none", <<>>>>]

MonitorPassRaising ==
    /\ UNCHANGED <<lvars, cvars>>
    /\ steps < MaxOps
    /\ monitoring_active
    /\ \E k \in 1..Len(Detectors) :
          \E r \in {MonitorDetectorRaising(World, k)} :
             Commit(r.w, "monitor", <<Detectors[k]>>, r.ret)
    /\ UNCHANGED <<now, monitoring_active, watchdog_running>>

NextScanFaults ==
    \/ MonitorPass
    \/ MonitorPassRaising
    \/ Tick

SpecScanFaults == InitScan /\ [][NextScanFaults]_vars

(***************************************************************************)
(* start_monitoring and stop_monitoring with the threads they start.  A    *)
(* loop thread is between two cycles: it tests its flag, and runs one more *)
(* cycle and sleeps, or leaves the loop and ends.  threads counts the live *)
(* threads of each loop.  stop_monitoring clears the flags and waits one   *)
(* second for the last watchdog thread only; the loops sleep 1 and 5       *)
(* seconds, so a stop can return with the threads alive.                   *)
(***************************************************************************)
InitMonitoring ==
    /\ InitKernel
    /\ InitLog
    /\ threads = [scan |-> 0, watchdog |-> 0]
    /\ log_writable = TRUE

\* start_monitoring() (lines 177-190) with WatchdogTimer.start (27-32): a
\* new thread of each loop per call that finds monitoring inactive.  With
\* the log unwritable the log_event of WatchdogTimer.start raises after the
\* watchdog thread started and before the scan thread is created.
MonitoringStart ==
    /\ UNCHANGED <<lvars, log_writable>>
    /\ steps < MaxOps
    /\ IF monitoring_active
       THEN /\ Commit(World, "start_monitoring", <<>>, <<>>)
            /\ UNCHANGED <<monitoring_active, watchdog_running, threads>>
       ELSE /\ monitoring_active' = TRUE
            /\ watchdog_running' = TRUE
            /\ IF log_writable
               THEN /\ threads' = [scan |-> threads.scan + 1,
                                   watchdog |-> threads.watchdog + 1]
                    /\ Commit(SendAlert(
                                 LogEvent(LogEvent(World, "watchdog", "started",
                                                   <<timeout_seconds>>),
                                          "guardian", "monitoring_started", <<>>),
                                 "Guardian monitoring activated", "info"),
                              "start_monitoring", <<>>, <<>>)
               ELSE /\ threads' = [threads EXCEPT !.watchdog = @ + 1]
                    /\ Commit(World, "start_monitoring", <<>>, <<"raised">>)
    /\ UNCHANGED now

\* stop_monitoring() (lines 192-196) with WatchdogTimer.stop (34-39): the
\* flags are cleared; no thread is ended by the call.
MonitoringStop ==
    /\ UNCHANGED <<lvars, cvars>>
    /\ steps < MaxOps
    /\ monitoring_active' = FALSE
    /\ watchdog_running' = FALSE
    /\ IF log_writable
       THEN Commit(LogEvent(LogEvent(World, "watchdog", "stopped", <<>>),
                            "guardian", "monitoring_stopped", <<>>),
                   "stop_monitoring", <<>>, <<>>)
       ELSE Commit(World, "stop_monitoring", <<>>, <<"raised">>)
    /\ UNCHANGED now

\* A scan-loop thread finds monitoring_active true and runs one cycle
\* (lines 200-206); a failing log_event inside the except clause ends it.
ScanLoopCycle ==
    /\ UNCHANGED <<lvars, log_writable>>
    /\ steps < MaxOps
    /\ threads.scan > 0
    /\ monitoring_active
    /\ IF log_writable
       THEN /\ \E r \in {Monitor(World)} : Commit(r.w, "monitor", <<>>, r.ret)
            /\ UNCHANGED threads
       ELSE \E r \in {MonitorLogFailing(World)} :
               /\ Commit(r.w, "monitor", <<>>,
                         IF r.raised THEN <<"raised">> ELSE <<"normal", "none", <<>>>>)
               /\ threads' = [threads EXCEPT
                     !.scan = IF r.raised THEN @ - 1 ELSE @]
    /\ UNCHANGED <<now, monitoring_active, watchdog_running>>

\* A watchdog thread finds running true and runs one cycle (lines 47-61).
WatchdogLoopCycle ==
    /\ UNCHANGED <<lvars, log_writable>>
    /\ steps < MaxOps
    /\ threads.watchdog > 0
    /\ watchdog_running
    /\ IF log_writable
       THEN /\ \E r \in {MonitorHeartbeat(World)} :
                  Commit(r.w, "watchdog_cycle", <<>>,
                         <<IF r.ret THEN "timeout" ELSE "fresh">>)
            /\ UNCHANGED threads
       ELSE \E r \in {MonitorHeartbeatLogFailing(World)} :
               /\ Commit(r.w, "watchdog_cycle", <<>>,
                         IF r.raised THEN <<"raised">> ELSE <<"fresh">>)
               /\ threads' = [threads EXCEPT
                     !.watchdog = IF r.raised THEN @ - 1 ELSE @]
    /\ UNCHANGED <<now, monitoring_active, watchdog_running>>

\* A scan-loop thread finds monitoring_active false at line 200 and ends.
ScanLoopExit ==
    /\ UNCHANGED <<kvars, lvars, log_writable>>
    /\ threads.scan > 0
    /\ ~monitoring_active
    /\ threads' = [threads EXCEPT !.scan = @ - 1]

\* A watchdog thread finds running false at line 47 and ends.
WatchdogLoopExit ==
    /\ UNCHANGED <<kvars, lvars, log_writable>>
    /\ threads.watchdog > 0
    /\ ~watchdog_running
    /\ threads' = [threads EXCEPT !.watchdog = @ - 1]

NextMonitoring ==
    \/ MonitoringStart
    \/ MonitoringStop
    \/ ScanLoopCycle
    \/ WatchdogLoopCycle
    \/ ScanLoopExit
    \/ WatchdogLoopExit
    \/ LogWritableChanges
    \/ Tick

SpecMonitoring == InitMonitoring /\ [][NextMonitoring]_vars

\* A thread whose sleep is over runs: it tests its flag again.
SpecMonitoringFair ==
    SpecMonitoring /\ WF_threads(ScanLoopExit) /\ WF_threads(WatchdogLoopExit)

(***************************************************************************)
(* activate_safe_mode called by two threads.  SafeModeManager holds no     *)
(* lock: between the read of safe_mode (line 75), the update (line 86) and *)
(* the record, log entry and alert (lines 96-107) the other caller runs.   *)
(***************************************************************************)
\* The callers: the watchdog thread (line 58 of the guardian) and the scan
\* thread (initiate_response, line 399 of the guardian).
Activators == {"watchdog", "guardian"}

ActivationReason(t) ==
    IF t = "watchdog" THEN "Watchdog timeout - kernel heartbeat lost"
    ELSE "critical threats detected"

InitActivationThreads ==
    /\ InitKernel
    /\ InitLog
    /\ threads = [t \in Activators |-> [pc |-> "idle"]]
    /\ log_writable = TRUE

\* Lines 75-78: get_current_state, and the return when safe mode is on.
ActivateSafeModeRead ==
    \E t \in Activators :
       /\ UNCHANGED <<lvars, log_writable>>
       /\ steps < MaxOps
       /\ threads[t].pc = "idle"
       /\ LET c == GetStateCopy(World)
          IN IF c.ok /\ c.st.safe_mode
             THEN /\ Commit(LogEvent(c.w, "safe_mode", "already_active",
                                     <<ActivationReason(t)>>),
                            "activate_safe_mode", t, <<"returned", TRUE>>)
                  /\ UNCHANGED threads
             ELSE /\ Commit(c.w, "activate_safe_mode", t, <<"reading">>)
                  /\ threads' = [threads EXCEPT ![t].pc = "update"]
       /\ UNCHANGED <<now, monitoring_active, watchdog_running>>

\* Lines 81-86 and 109: update_kernel_state, and the return when it is
\* refused.
ActivateSafeModeUpdate ==
    \E t \in Activators :
       /\ UNCHANGED <<lvars, log_writable>>
       /\ threads[t].pc = "update"
       /\ \E u \in {UpdateState(World,
                                <<Item("safe_mode", Bool(TRUE)),
                                  Item("alert_level", Str("critical"))>>,
                                <<"safe_mode_activation", t>>)} :
             IF u.ret
             THEN /\ Commit(u.w, "activate_safe_mode", t, <<"updating">>)
                  /\ threads' = [threads EXCEPT ![t].pc = "record"]
             ELSE /\ Commit(u.w, "activate_safe_mode", t, <<"returned", FALSE>>)
                  /\ threads' = [threads EXCEPT ![t].pc = "idle"]
       /\ UNCHANGED <<now, monitoring_active, watchdog_running>>

\* Lines 88-108: the activation record, the log entry and the alert.
ActivateSafeModeRecord ==
    \E t \in Activators :
       /\ UNCHANGED <<lvars, log_writable>>
       /\ threads[t].pc = "record"
       /\ LET rec == [timestamp |-> now, reason |-> ActivationReason(t),
                      triggered_by |-> t,
                      restrictions |-> {"disable_external_api",
                                        "limit_state_changes",
                                        "enhanced_logging",
                                        "require_authorization"},
                      deactivated_at |-> 0, deactivated_by |-> ""]
              w2 == [World EXCEPT !.smh = Append(@, rec)]
              w3 == LogEvent(w2, "safe_mode", "activated",
                             <<ActivationReason(t), t>>)
          IN Commit(SendAlert(w3, "SAFE MODE ACTIVATED", "critical"),
                    "activate_safe_mode", t, <<"returned", TRUE>>)
       /\ threads' = [threads EXCEPT ![t].pc = "idle"]
       /\ UNCHANGED <<now, monitoring_active, watchdog_running>>

NextActivationThreads ==
    \/ ActivateSafeModeRead
    \/ ActivateSafeModeUpdate
    \/ ActivateSafeModeRecord
    \/ DeactivateSafeModeCall
    \/ Tick

SpecActivationThreads ==
    InitActivationThreads /\ [][NextActivationThreads]_vars

(***************************************************************************)
(* The heartbeat and the watchdog.  Callers of update_kernel_state pass    *)
(* any dict: the heartbeat key is a key of the state dict like the others, *)
(* and _validate_state_change accepts every value for it (line 109).       *)
(***************************************************************************)
HeartbeatUpdates ==
    {<<Item("trust", Num(2))>>,
     <<Item("trust", Num(50))>>,
     <<Item("heartbeat", Num(1000))>>,
     <<Item("heartbeat", Num(1000)), Item("trust", Num(50))>>}

\* update_kernel_state(updates, source)
HeartbeatUpdateCall ==
    /\ UNCHANGED <<lvars, cvars>>
    /\ steps < MaxOps
    /\ \E updates \in HeartbeatUpdates :
          \E r \in {UpdateState(World, updates, <<"api">>)} :
             Commit(r.w, "update_kernel_state", updates, r.ret)
    /\ UNCHANGED <<now, monitoring_active, watchdog_running>>

NextHeartbeat ==
    \/ HeartbeatUpdateCall
    \/ StartMonitoring
    \/ WatchdogCycle
    \/ DeactivateSafeModeCall
    \/ Tick

SpecHeartbeat == Init /\ [][NextHeartbeat]_vars

(***************************************************************************)
(* log_event with a write that may fail.  The failure comes before any     *)
(* byte is written (json.dumps or open raises), or while the line is       *)
(* written: the file system takes a part of the text and refuses the rest  *)
(* (a full disk, a file size limit), and the file ends with a partial      *)
(* line.  Either way the except clause of lines 132-151 raises.            *)
(***************************************************************************)
LogFaults == {"none", "before_write", "during_write"}

\* f.write(json.dumps(log_entry) + '\n') in append mode: the text goes
\* after the last byte of the file, on the partial line when there is one.
AppendText(file, line) ==
    IF file.exists /\ Len(file.lines) > 0
       /\ JsonLoadsRaises(file.lines[Len(file.lines)])
    THEN file
    ELSE [exists |-> TRUE, lines |-> Append(file.lines, line)]

\* ImmutableAuditLogger.log_event(event_type, data, security_level), with
\* the fault the call meets.
LogEventFaulty ==
    /\ UNCHANGED <<cvars, verify_result, tamper>>
    /\ steps < MaxOps
    /\ log_lock = "free"
    /\ \E type \in LogTypes, data \in LogPayloads, security_level \in LogLevels,
          fault \in LogFaults :
          LET sequence == GetNextSequence(log_file)
              entry == MakeEntry(type, data, security_level, sequence, last_hash)
              written == AppendText(log_file, entry)
          IN /\ op' = [name |-> "log_event", arg |-> <<fault>>,
                       ret |-> IF fault = "none" THEN <<entry>> ELSE <<>>,
                       activations |-> 0]
             /\ CASE fault = "none" ->
                        /\ last_hash' = entry.entry_hash
                        /\ integrity_chain' = Append(integrity_chain,
                                                     [sequence |-> sequence,
                                                      hash |-> entry.entry_hash])
                        /\ IF sequence % ROTATE_EVERY = 0
                           THEN /\ backups' = RotatedBackups(backups, written)
                                /\ log_file' = AbsentFile
                                /\ log_lock' = "log_event"
                           ELSE /\ log_file' = written
                                /\ log_lock' = "free"
                                /\ UNCHANGED backups
                  [] fault = "before_write" ->
                        UNCHANGED <<log_file, backups, last_hash,
                                    integrity_chain, log_lock>>
                  [] fault = "during_write" ->
                        /\ log_file' = AppendText(log_file, PartialLine(entry))
                        /\ UNCHANGED <<backups, last_hash, integrity_chain,
                                       log_lock>>
    /\ steps' = steps + 1
    /\ audit' = <<>>
    /\ UNCHANGED <<state, integrity_hash, state_history, quarantined_inputs,
                   safe_mode_history, alert_history, validation_history,
                   anomaly_history, monitoring_active, watchdog_running, now>>

NextLogFaults ==
    \/ LogEventFaulty
    \/ Tick

SpecLogFaults == Init /\ [][NextLogFaults]_vars

(***************************************************************************)
(* What the properties read of a step.                                     *)
(***************************************************************************)
\* The last operation logged an entry of this type and action.
Logged(log, type, action) ==
    \E i \in 1..Len(log) : log[i].type = type /\ log[i].action = action

\* The severities of the alerts in alerts beyond the first n.
SeveritiesAfter(alerts, n) ==
    [i \in 1..(Len(alerts) - n) |-> alerts[n + i].severity]

\* The entries of the issues with this issue name, as their sequence numbers.
RECURSIVE IssueSequences(_, _)
IssueSequences(issues, name) ==
    IF issues = <<>> THEN <<>>
    ELSE (IF issues[1].issue = name THEN <<issues[1].sequence>> ELSE <<>>)
         \o IssueSequences(Tail(issues), name)

(***************************************************************************)
(* C1.  update_state is all-or-nothing: a call that returns False leaves   *)
(* every state field at its value before the call, the fields that come    *)
(* before the failing one in the map included.                             *)
(* Violated: update {trust: 0.5, harmony: 5.0} returns False with          *)
(* trust = 0.5 written.                                                    *)
(***************************************************************************)
C1_AllOrNothing ==
    [][(op'.name = "update_kernel_state" /\ op'.ret = FALSE)
          => state' = state]_vars

(***************************************************************************)
(* C2.  With no modification of the file, after any number of appends      *)
(* verify_integrity_chain reports verified with no issue, and the first    *)
(* entry of the file chains to the hash of GENESIS_BLOCK.                  *)
(* Violated: an entry whose data holds a dict with the int keys 9 and 10   *)
(* hashes differently once read back; and the append that crosses the      *)
(* rotation modulus leaves no active file.                                 *)
(***************************************************************************)
C2_ChainVerifies ==
    tamper.part = "none"
       => /\ VerifyIntegrityChain(log_file).status = "verified"
          /\ VerifyIntegrityChain(log_file).integrity_issues = <<>>
          /\ log_file.lines[1].previous_hash = GenesisHash

(***************************************************************************)
(* C3.  The step that modifies one part of entry i of a log that verified  *)
(* before it.                                                              *)
(***************************************************************************)
\* The step modifies the file, and the file verified before.
TamperStep ==
    /\ tamper.part = "none"
    /\ tamper'.part # "none"
    /\ VerifyIntegrityChain(log_file).status = "verified"

\* C3 as stated: after the modification of any part of entry i, the report
\* is compromised, with exactly one hash_mismatch, of entry i, and exactly
\* one chain_break, of entry i+1, whenever entry i+1 exists (and none
\* otherwise).
\* Violated: a modified data leaves the hashes that link the entries as they
\* were, and no chain_break is reported.
C3_TamperAsStated ==
    [][TamperStep =>
         LET i == tamper'.index
             lines == log_file'.lines
             r == VerifyIntegrityChain(log_file')
         IN /\ r.status = "compromised"
            /\ IssueSequences(r.integrity_issues, "hash_mismatch")
                  = <<lines[i].sequence>>
            /\ IssueSequences(r.integrity_issues, "chain_break")
                  = IF i < Len(lines) THEN <<lines[i + 1].sequence>> ELSE <<>>]_vars

\* C3 as amended: the report is compromised, with exactly one hash_mismatch,
\* of entry i.  It holds exactly one chain_break of entry i+1 when the
\* entry_hash was modified and entry i+1 exists; exactly one chain_break of
\* entry i itself when the previous_hash was modified and entry i is not the
\* first; and no chain_break in every other case, a modified data among them.
C3_TamperDetected ==
    [][TamperStep =>
         LET i == tamper'.index
             lines == log_file'.lines
             r == VerifyIntegrityChain(log_file')
         IN /\ r.status = "compromised"
            /\ IssueSequences(r.integrity_issues, "hash_mismatch")
                  = <<lines[i].sequence>>
            /\ IssueSequences(r.integrity_issues, "chain_break")
                  = CASE tamper'.part = "entry_hash" /\ i < Len(lines)
                            -> <<lines[i + 1].sequence>>
                      [] tamper'.part = "previous_hash" /\ i > 1
                            -> <<lines[i].sequence>>
                      [] OTHER -> <<>>]_vars

\* C3's case: the data of an entry that has a successor was modified in a
\* log with no other flaw, and verify_integrity_chain has reported the one
\* hash_mismatch.
C3_Witness ==
    /\ tamper.part = "data"
    /\ tamper.index < Len(log_file.lines)
    /\ verify_result.status = "compromised"
    /\ verify_result = VerifyIntegrityChain(log_file)
    /\ Len(verify_result.integrity_issues) = 1
    /\ verify_result.integrity_issues[1].sequence
          = log_file.lines[tamper.index].sequence

(***************************************************************************)
(* C4.  activate_safe_mode called twice in a row: after the second call    *)
(* safe_mode is true, the call returned True and logged already_active,    *)
(* it updated no kernel state and appended no activation record.           *)
(* Violated: after a rejected update has left a field written (C1), the    *)
(* stored hash no longer matches; both calls return False and safe_mode    *)
(* stays false.                                                            *)
(***************************************************************************)
C4_ActivateIdempotent ==
    [][(op.name = "activate_safe_mode" /\ op'.name = "activate_safe_mode")
          => /\ state'.safe_mode = TRUE
             /\ op'.ret = TRUE
             /\ Logged(audit', "safe_mode", "already_active")
             /\ state' = state
             /\ state_history' = state_history
             /\ safe_mode_history' = safe_mode_history]_vars

(***************************************************************************)
(* C5.  The dual-validation gate.  In a scan pass, activate_safe_mode is   *)
(* called only when the decision's validation record has both the primary  *)
(* and the secondary outcome true; when the primary is true and the        *)
(* secondary false, the kernel state and its hash are those before the     *)
(* pass; and the dual_validation entry of the audit log carries the two    *)
(* outcomes of the record.                                                 *)
(***************************************************************************)
\* The scan pass made a decision: it appended a validation record.
Decided == Len(validation_history') = Len(validation_history) + 1

C5_DualValidationGate ==
    [][op'.name = "monitor" =>
         LET rec == validation_history'[Len(validation_history')]
         IN /\ Len(validation_history') \in
                  {Len(validation_history), Len(validation_history) + 1}
            /\ op'.activations > 0
                  => Decided /\ rec.primary_result /\ rec.secondary_result
            /\ (Decided /\ rec.primary_result /\ ~rec.secondary_result)
                  => state' = state /\ integrity_hash' = integrity_hash
            /\ Decided
                  => \E k \in 1..Len(audit') :
                        /\ audit'[k].type = "dual_validation"
                        /\ audit'[k].info[1] = rec.primary_result
                        /\ audit'[k].info[2] = rec.secondary_result]_vars

\* C5's case: a scan pass has just validated a decision whose primary
\* outcome is true and whose secondary outcome is false.
C5_Witness ==
    /\ op.name = "monitor"
    /\ Logged(audit, "dual_validation", "safe_mode_activation")
    /\ validation_history[Len(validation_history)].primary_result
    /\ ~validation_history[Len(validation_history)].secondary_result
    /\ op.activations = 0

(***************************************************************************)
(* C6.  Watchdog bypass.  Every watchdog check that finds the heartbeat 0   *)
(* or older than timeout_seconds calls activate_safe_mode without asking    *)
(* the dual validation (no validation record is appended), and safe_mode    *)
(* is true after it.                                                       *)
(* Violated: after a rejected update has left a field written (C1), the    *)
(* stored hash no longer matches; the watchdog's activate_safe_mode fails   *)
(* in update_state and safe_mode stays false.                              *)
(***************************************************************************)
C6_WatchdogBypass ==
    [][(op'.name = "watchdog_cycle" /\ op'.ret = TRUE)
          => /\ op'.activations = 1
             /\ validation_history' = validation_history
             /\ state'.safe_mode = TRUE]_vars

(***************************************************************************)
(* C7.  Every scan pass that finds a critical-severity anomaly (trust and  *)
(* harmony below 0.3 with safe_mode false) gives a critical-level response *)
(* that leaves safe_mode true and records an emergency alert, the passes   *)
(* after an authorised deactivation included.                              *)
(* Violated: the secondary validator passes a safe_mode_activation only    *)
(* while validation_history is empty (no record of type anomaly_detected   *)
(* is ever appended); the second critical pass is refused.                 *)
(***************************************************************************)
C7_CriticalResponse ==
    [][(/\ op'.name = "monitor"
        /\ state.trust < 3 /\ state.harmony < 3 /\ ~state.safe_mode
        /\ \E k \in 1..Len(audit') :
              /\ audit'[k].type = "anomaly_detection"
              /\ audit'[k].info = <<"critical">>)
          => /\ op'.ret[2] = "critical"
             /\ state'.safe_mode = TRUE
             /\ \E k \in 1..Len(SeveritiesAfter(alert_history',
                                                Len(alert_history))) :
                   SeveritiesAfter(alert_history',
                                   Len(alert_history))[k] = "emergency"]_vars

(***************************************************************************)
(* C8.  safe_mode goes from true to false only through                     *)
(* deactivate_safe_mode called by a member of the authorised set.          *)
(* Violated: update_kernel_state({safe_mode: False}) passes the validator  *)
(* of safe_mode, which asks for a bool only, and clears the field.         *)
(***************************************************************************)
C8_LeaveNeedsAuthorization ==
    [][(state.safe_mode = TRUE /\ state'.safe_mode = FALSE)
          => /\ op'.name = "deactivate_safe_mode"
             /\ op'.arg \in authorized_users]_vars

(***************************************************************************)
(* C9.  An unauthorised deactivate_safe_mode while safe_mode is true       *)
(* returns False, leaves every state field as it was, logs                 *)
(* deactivation_unauthorized and records exactly one alert, a warning.     *)
(* Violated: after a rejected update has left safe_mode = True written     *)
(* (C1), the stored hash no longer matches, get_state_copy returns an      *)
(* empty map, and the call answers not_active and True before it looks at  *)
(* the caller.                                                             *)
(***************************************************************************)
C9_UnauthorizedDeactivation ==
    [][(/\ op'.name = "deactivate_safe_mode"
        /\ op'.arg \notin authorized_users
        /\ state.safe_mode = TRUE)
          => /\ op'.ret = FALSE
             /\ state' = state
             /\ Logged(audit', "safe_mode", "deactivation_unauthorized")
             /\ SeveritiesAfter(alert_history', Len(alert_history))
                   = <<"warning">>]_vars

(***************************************************************************)
(* C10.  release_quarantine asked by someone outside the authorised roles, *)
(* of a record that is quarantined: the call returns failure, the record   *)
(* stays quarantined and a warning alert is recorded.                      *)
(* Violated: release_quarantine never looks at authorized_by; it releases  *)
(* the record and records no alert.                                        *)
(***************************************************************************)
C10_UnauthorizedRelease ==
    [][(/\ op'.name = "release_quarantine"
        /\ op'.arg[2] \notin authorized_users
        /\ \E i \in 1..Len(quarantined_inputs) :
              /\ quarantined_inputs[i].id = op'.arg[1]
              /\ quarantined_inputs[i].status = "quarantined")
          => /\ op'.ret = FALSE
             /\ quarantined_inputs' = quarantined_inputs
             /\ SeveritiesAfter(alert_history', Len(alert_history))
                   = <<"warning">>]_vars

(***************************************************************************)
(* C11.  Quarantine is soft-delete.  Every step keeps each record of       *)
(* quarantined_inputs in its place with its id, data, reason and           *)
(* timestamp (the count never decreases); a record that is released stays  *)
(* released, and carries who released it and when; and release_quarantine  *)
(* of an id that names no record returns False and changes no record.      *)
(***************************************************************************)
C11_QuarantineSoftDelete ==
    [][/\ Len(quarantined_inputs') >= Len(quarantined_inputs)
       /\ \A i \in 1..Len(quarantined_inputs) :
             /\ quarantined_inputs'[i].id = quarantined_inputs[i].id
             /\ quarantined_inputs'[i].data = quarantined_inputs[i].data
             /\ quarantined_inputs'[i].reason = quarantined_inputs[i].reason
             /\ quarantined_inputs'[i].timestamp = quarantined_inputs[i].timestamp
             /\ quarantined_inputs[i].status = "released"
                   => quarantined_inputs'[i].status = "released"
       /\ \A i \in 1..Len(quarantined_inputs') :
             /\ quarantined_inputs'[i].status \in {"quarantined", "released"}
             /\ quarantined_inputs'[i].status = "released"
                   => /\ quarantined_inputs'[i].released_by \in Callers
                      /\ quarantined_inputs'[i].released_at >= 1
       /\ (/\ op'.name = "release_quarantine"
           /\ \A i \in 1..Len(quarantined_inputs) :
                 quarantined_inputs[i].id # op'.arg[1])
             => /\ op'.ret = FALSE
                /\ quarantined_inputs' = quarantined_inputs]_vars

\* C11's case: with one record released and another still quarantined, a
\* release of an id that names no record has just returned False.
C11_Witness ==
    /\ op.name = "release_quarantine"
    /\ op.ret = FALSE
    /\ \E i, j \in 1..Len(quarantined_inputs) :
          /\ quarantined_inputs[i].status = "released"
          /\ quarantined_inputs[j].status = "quarantined"

(***************************************************************************)
(* C12.  The mutation of the kernel state is one atomic critical section:  *)
(* with two concurrent update_state calls whose every field is valid and a *)
(* concurrent get_state_copy, no update is rejected as integrity           *)
(* compromised and no read comes back empty.                               *)
(* Violated: the class holds no lock.  A thread that has written trust and *)
(* not yet stored the new hash leaves a state the hash does not cover; the *)
(* other update_state, or the get_state_copy, that checks the integrity    *)
(* then is refused.                                                        *)
(***************************************************************************)
\* Every item of the updates map passes its validator.
AllValid(updates) ==
    \A i \in 1..Len(updates) :
       \/ updates[i].key \notin StateKeys
       \/ ValidateStateChange(updates[i].key, updates[i].val)

C12_AtomicCriticalSection ==
    (\A t \in DOMAIN threads : AllValid(threads[t].updates))
       => \A t \in DOMAIN threads : threads[t].reason # "integrity"

(***************************************************************************)
(* C13.  With concurrent log_event callers on one logger, the entries of   *)
(* every persisted file have sequence numbers that go up by exactly 1 in   *)
(* file order, and each entry's previous_hash is the entry_hash of the     *)
(* entry written just before it.                                           *)
(***************************************************************************)
\* The files on disk: the active one and the archives.
PersistedFiles == {log_file} \cup {backups[i] : i \in 1..backup_count}

C13_SerializedAppends ==
    \A file \in PersistedFiles :
       \A i \in 2..Len(file.lines) :
          /\ file.lines[i].sequence = file.lines[i - 1].sequence + 1
          /\ file.lines[i].previous_hash = file.lines[i - 1].entry_hash

\* C13's case: both threads have appended, and one is inside log_event
\* while the other waits for log_lock.
C13_Witness ==
    /\ \A t \in LogThreads : threads[t].returned = 1
    /\ Len(log_file.lines) >= 3
    /\ \E t \in LogThreads : threads[t].pc = "write"

(***************************************************************************)
(* C14.  Every log_event call runs to completion: a thread that has        *)
(* entered log_event eventually returns and releases log_lock, the call    *)
(* whose sequence number is a multiple of the rotation modulus included.   *)
(* Violated: that call reaches _initialize_log_file holding log_lock,      *)
(* asks for the same non-reentrant lock and waits for ever; every later    *)
(* caller waits behind it.                                                 *)
(***************************************************************************)
C14_LogEventCompletes ==
    \A t \in LogThreads :
       (threads[t].pc = "build") ~> (threads[t].pc = "idle" /\ log_lock # t)

(***************************************************************************)
(* C15.  Rotation keeps the chain and bounds the archives.  The append     *)
(* that crosses the rotation modulus archives the active log, the new      *)
(* entry in it, as generation 1 and moves each older generation up by one  *)
(* (the oldest is discarded); after it the active log exists and its first *)
(* entry has for previous_hash the entry_hash of the last entry of         *)
(* generation 1.                                                           *)
(* Violated: the call never gets past the lock of _initialize_log_file     *)
(* (C14); the archives are in place and there is no active log.            *)
(***************************************************************************)
C15_RotationContinuity ==
    [][(backups' # backups)
          => /\ backups'[1].exists
             /\ Len(backups'[1].lines) = Len(log_file.lines) + 1
             /\ \A i \in 1..Len(log_file.lines) :
                   backups'[1].lines[i] = log_file.lines[i]
             /\ \A i \in 2..backup_count :
                   backups[i - 1].exists => backups'[i] = backups[i - 1]
             /\ log_file'.exists
             /\ Len(log_file'.lines) >= 1
             /\ log_file'.lines[1].previous_hash
                   = backups'[1].lines[Len(backups'[1].lines)].entry_hash]_vars

(***************************************************************************)
(* C16.  A failure of the audit-log write never crashes the loops: when    *)
(* log_event raises inside a scan cycle or a watchdog cycle, the loop's    *)
(* thread is still running after the cycle, as long as monitoring is       *)
(* active.                                                                 *)
(* Violated: the except clause of each loop calls log_event itself; with   *)
(* the log still unwritable that call raises inside the handler, the       *)
(* exception leaves the while loop and the thread ends, monitoring_active  *)
(* still true.                                                             *)
(***************************************************************************)
C16_LoopsSurviveLogFailure ==
    [][\A t \in LoopThreads :
          (threads[t].pc = "running" /\ monitoring_active')
             => threads'[t].pc = "running"]_vars

(***************************************************************************)
(* C17.  In every reachable state, after accepted and rejected updates     *)
(* alike, trust and harmony are numbers between 0.0 and 1.0 (0 and 10      *)
(* tenths), emotion, context and alert_level are members of their          *)
(* enumerations, and safe_mode is a boolean.                               *)
(***************************************************************************)
C17_FieldsValid ==
    /\ state.trust \in 0..10
    /\ state.harmony \in 0..10
    /\ state.emotion \in valid_emotions
    /\ state.context \in valid_contexts
    /\ state.alert_level \in valid_levels
    /\ state.safe_mode \in BOOLEAN

\* C17's case: an update has just been rejected at its second field, after
\* its first field was written.
C17_Witness ==
    /\ op.name = "update_kernel_state"
    /\ op.ret = FALSE
    /\ Len(op.arg) = 2
    /\ Logged(audit, "kernel_state", "invalid_state_change_rejected")
    /\ state.trust = 5

(***************************************************************************)
(* C18.  A read of corrupted state still returns data: a get_state_copy    *)
(* that starts while the stored integrity_hash differs from the hash of    *)
(* the current fields goes on to return the field values, never the empty  *)
(* dictionary.                                                             *)
(***************************************************************************)
C18_CorruptedReadReturnsData ==
    [][\A t \in Readers :
          (/\ threads[t].pc = "idle"
           /\ threads'[t].pc # "idle"
           /\ integrity_hash # CalculateHash(state))
             => /\ threads'[t].ret # "empty"
                /\ threads'[t].pc = "copy"]_vars

(***************************************************************************)
(* C19.  The Guardian is never optimistic about a corrupted read: a scan   *)
(* pass that starts while the stored integrity_hash differs from the hash  *)
(* of the fields (get_current_state has nothing to give) reaches a         *)
(* response in that pass, one that activates safe mode and records an      *)
(* alert.                                                                  *)
(* Violated: monitor() logs "Unable to retrieve current state" and returns *)
(* the status error with the reason state_unavailable; no validation, no   *)
(* safe-mode activation and no alert happen in the pass.                   *)
(***************************************************************************)
C19_CorruptedReadWorstCase ==
    [][(/\ op'.name = "monitor"
        /\ integrity_hash # CalculateHash(state))
          => /\ op'.ret[1] = "response_initiated"
             /\ op'.activations = 1
             /\ Len(alert_history') > Len(alert_history)]_vars

(***************************************************************************)
(* C20.  A validation error is never fatal: when an update_state has       *)
(* returned False because a field was invalid, the stored integrity_hash   *)
(* still matches the state, and an update_state of valid fields only that  *)
(* follows it returns True and leaves a state that get_state_copy gives    *)
(* back.                                                                   *)
(* Violated: the rejected update {trust: 0.5, harmony: 5.0} has written    *)
(* trust without a new hash (C1); the valid update that follows is refused *)
(* by the integrity check of line 44.                                      *)
(***************************************************************************)
C20_ValidationErrorNotFatal ==
    [][(/\ op.name = "update_kernel_state"
        /\ op.ret = FALSE
        /\ Logged(audit, "kernel_state", "invalid_state_change_rejected")
        /\ op'.name = "update_kernel_state"
        /\ AllValid(op'.arg))
          => /\ integrity_hash = CalculateHash(state)
             /\ op'.ret = TRUE
             /\ integrity_hash' = CalculateHash(state')]_vars

(***************************************************************************)
(* C21.  The response level of a scan pass.  Of the anomalies the pass     *)
(* recorded: any critical gives the level critical; otherwise two high,    *)
(* or one high with two medium, give severe; otherwise one high or three   *)
(* medium give moderate; otherwise no response is initiated and the        *)
(* threats are only logged.                                                *)
(***************************************************************************)
\* How many of the anomaly records beyond the first n have this severity.
RecordedWith(history, n, severity) ==
    Cardinality({i \in (n + 1)..Len(history) :
                    history[i].threat.severity = severity})

C21_ResponseLevel ==
    [][(op'.name = "monitor" /\ Len(anomaly_history') > Len(anomaly_history))
          => LET n == Len(anomaly_history)
                 critical == RecordedWith(anomaly_history', n, "critical")
                 high == RecordedWith(anomaly_history', n, "high")
                 medium == RecordedWith(anomaly_history', n, "medium")
             IN /\ critical >= 1 => op'.ret[2] = "critical"
                /\ (critical = 0 /\ (high >= 2 \/ (high >= 1 /\ medium >= 2)))
                      => op'.ret[2] = "severe"
                /\ (/\ critical = 0
                    /\ ~(high >= 2 \/ (high >= 1 /\ medium >= 2))
                    /\ (high >= 1 \/ medium >= 3))
                      => op'.ret[2] = "moderate"
                /\ (critical = 0 /\ high = 0 /\ medium < 3)
                      => /\ op'.ret[1] = "threats_logged"
                         /\ ~Logged(audit', "threat_response", "moderate")
                         /\ alert_history' = alert_history
                /\ op'.ret[2] # "none" => op'.ret[1] = "response_initiated"]_vars

\* C21's case: a pass that recorded three medium anomalies and nothing
\* else gave the moderate response.
C21_Witness ==
    /\ op.name = "monitor"
    /\ op.ret[1] = "response_initiated"
    /\ op.ret[2] = "moderate"
    /\ Len(anomaly_history) = 3
    /\ RecordedWith(anomaly_history, 0, "medium") = 3

(***************************************************************************)
(* C22.  A watchdog check that finds the heartbeat 0 or older than         *)
(* timeout_seconds records an alert of severity emergency, besides         *)
(* activating safe mode.                                                   *)
(* Violated: the alert _monitor_heartbeat sends, and the one               *)
(* activate_safe_mode sends, are both of severity critical.                *)
(***************************************************************************)
C22_WatchdogEmergencyAlert ==
    [][(op'.name = "watchdog_cycle" /\ op'.ret = TRUE)
          => \E i \in (Len(alert_history) + 1)..Len(alert_history') :
                alert_history'[i].severity = "emergency"]_vars

(***************************************************************************)
(* C23.  validate_input applies the contradiction check of the emotional   *)
(* anomaly detector: every input whose (emotion, context) pair is          *)
(* (Anger, Calm), (Fear, Peaceful) or (Love, Crisis) is rejected and       *)
(* quarantined.                                                            *)
(* Violated: _detect_malicious_patterns looks for (Love, Crisis) alone;    *)
(* an input of (Anger, Calm) is accepted and no record is added.           *)
(***************************************************************************)
C23_ContradictoryPairsRejected ==
    [][(/\ op'.name = "validate_input"
        /\ op'.arg.emotion.t = "str"
        /\ op'.arg.context.t = "str"
        /\ <<op'.arg.emotion.v, op'.arg.context.v>> \in anomalous_pairs)
          => /\ op'.ret = FALSE
             /\ Len(quarantined_inputs') = Len(quarantined_inputs) + 1
             /\ quarantined_inputs'[Len(quarantined_inputs')].data = op'.arg
             /\ quarantined_inputs'[Len(quarantined_inputs')].status
                   = "quarantined"]_vars

(***************************************************************************)
(* C24.  validate_input rejects exactly by quarantining: a call that       *)
(* returns False has added exactly one record, of that input and with the  *)
(* status quarantined; a call that returns True has added none and has     *)
(* logged guardian_validation_passed.  An input with an invalid emotion,   *)
(* with no context or with the pair (Love, Crisis) is rejected, and a      *)
(* valid input with no contradiction is accepted when nothing fails        *)
(* inside the validation.                                                  *)
(* Violated: when the validation raises after its checks (hashlib.md5      *)
(* refused by the build), the except of line 461 logs the error and        *)
(* returns False with no quarantine record.                                *)
(***************************************************************************)
C24_RejectsByQuarantining ==
    [][op'.name = "validate_input"
          => LET n == Len(quarantined_inputs)
                 data == op'.arg
             IN /\ op'.ret = FALSE
                      => /\ Len(quarantined_inputs') = n + 1
                         /\ SubSeq(quarantined_inputs', 1, n) = quarantined_inputs
                         /\ quarantined_inputs'[n + 1].data = data
                         /\ quarantined_inputs'[n + 1].status = "quarantined"
                /\ op'.ret = TRUE
                      => /\ quarantined_inputs' = quarantined_inputs
                         /\ Logged(audit', "input_validation",
                                   "guardian_validation_passed")
                /\ (\/ data.emotion = Str("InvalidEmotion")
                    \/ data.context = Absent
                    \/ (data.emotion = Str("Love") /\ data.context = Str("Crisis")))
                      => op'.ret = FALSE]_vars

(***************************************************************************)
(* C25.  emergency_shutdown activates safe mode unconditionally: from any  *)
(* state, safe mode on or off and the integrity hash matching or not, a    *)
(* call that returns True leaves safe_mode true and has recorded an alert  *)
(* of severity emergency, and the emergency_shutdown entry of the audit    *)
(* log comes before the entries of both.                                   *)
(* Violated: with the stored hash stale, activate_safe_mode returns False  *)
(* (its update_state is refused); emergency_shutdown does not look at the  *)
(* answer, sends the alert and returns True with safe_mode false.          *)
(***************************************************************************)
C25_EmergencyShutdown ==
    [][(op'.name = "emergency_shutdown" /\ op'.ret = TRUE)
          => /\ state'.safe_mode = TRUE
             /\ Len(alert_history') > Len(alert_history)
             /\ alert_history'[Len(alert_history')].severity = "emergency"
             /\ Len(audit') > 0
             /\ audit'[1].type = "emergency_shutdown"]_vars

(***************************************************************************)
(* C26.  Every transition of the field safe_mode, by whatever call it is   *)
(* made, has its record in safe_mode_history: a step that takes safe_mode  *)
(* from false to true appends one record with its reason, its trigger and  *)
(* the restriction set; a step that takes it from true to false stamps     *)
(* the open record with who deactivated it and when.                       *)
(* Violated: update_kernel_state({safe_mode: False}) passes the validator  *)
(* and clears safe_mode with safe_mode_history untouched.                  *)
(***************************************************************************)
C26_TransitionsRecorded ==
    [][LET n == Len(safe_mode_history)
       IN /\ (~state.safe_mode /\ state'.safe_mode)
                => /\ Len(safe_mode_history') = n + 1
                   /\ safe_mode_history'[n + 1].reason # ""
                   /\ safe_mode_history'[n + 1].triggered_by # ""
                   /\ safe_mode_history'[n + 1].restrictions # {}
                   /\ safe_mode_history'[n + 1].deactivated_by = ""
          /\ (state.safe_mode /\ ~state'.safe_mode)
                => /\ Len(safe_mode_history') = n
                   /\ n > 0
                   /\ safe_mode_history[n].deactivated_by = ""
                   /\ safe_mode_history'[n].deactivated_by # ""
                   /\ safe_mode_history'[n].deactivated_at = now]_vars

(***************************************************************************)
(* C27.  An authorised deactivate_safe_mode made while safe_mode is true   *)
(* returns True, leaves safe_mode false and alert_level normal, stamps     *)
(* the open activation record (the most recent one, if not yet closed)     *)
(* with deactivated_by and deactivated_at, and records exactly one alert,  *)
(* of severity info.                                                       *)
(* Violated: after a rejected update has left safe_mode = True written     *)
(* (C1), the stored hash no longer matches, get_state_copy returns an      *)
(* empty map, and the call answers not_active: it returns True with        *)
(* safe_mode still true and no alert.                                      *)
(***************************************************************************)
C27_AuthorizedDeactivation ==
    [][(/\ op'.name = "deactivate_safe_mode"
        /\ op'.arg \in authorized_users
        /\ state.safe_mode = TRUE)
          => LET n == Len(safe_mode_history)
             IN /\ op'.ret = TRUE
                /\ state'.safe_mode = FALSE
                /\ state'.alert_level = "normal"
                /\ (n > 0 /\ safe_mode_history[n].deactivated_by = "")
                      => /\ safe_mode_history'[n].deactivated_by = op'.arg
                         /\ safe_mode_history'[n].deactivated_at = now
                /\ SeveritiesAfter(alert_history', Len(alert_history))
                      = <<"info">>]_vars

(***************************************************************************)
(* C28.  quarantine_input generates a unique id: after any interleaving    *)
(* of quarantine_input calls, two of them running within the same second   *)
(* included, no two records of quarantined_inputs share an id.             *)
(* Violated: two threads read the clock and the length of the list before  *)
(* either appends its record; both records get the same id.                *)
(***************************************************************************)
C28_UniqueQuarantineIds ==
    \A i, j \in 1..Len(quarantined_inputs) :
       quarantined_inputs[i].id = quarantined_inputs[j].id => i = j

(***************************************************************************)
(* C29.  The behavioural-pattern detector.  A scan pass that starts with   *)
(* at least 3 anomalies recorded within the trailing 5 minutes records a   *)
(* pattern_anomaly of severity high, also when the anomaly history holds   *)
(* only 3 or 4 records, and records it besides the anomalies the other     *)
(* detectors find in the pass.                                             *)
(* Violated: _analyze_behavior_patterns looks at the history only once it  *)
(* holds 5 records; with 3 recent records in all no pattern_anomaly is     *)
(* raised.                                                                 *)
(***************************************************************************)
\* How many anomaly records are younger than 5 minutes at clock t.
RecentAnomalies(history, t) ==
    Cardinality({i \in 1..Len(history) : t - history[i].timestamp < 300})

C29_PatternAnomaly ==
    [][(/\ op'.name = "monitor"
        /\ integrity_hash = CalculateHash(state)
        /\ RecentAnomalies(anomaly_history, now) >= 3)
          => LET n == Len(anomaly_history)
                 others == DetectTrustAnomaly(state)
                           \o DetectHarmonyAnomaly(state)
                           \o DetectEmotionalAnomaly(state)
                           \o VerifyStateIntegrity(state)
             IN /\ \E i \in (n + 1)..Len(anomaly_history') :
                      anomaly_history'[i].threat
                         = Threat("pattern_anomaly", "high")
                /\ Len(anomaly_history') = n + Len(others) + 1]_vars

(***************************************************************************)
(* C30.  Detectors are isolated from each other's failures: in a scan      *)
(* pass in which one detector raises, the exception is logged, the other   *)
(* detectors still run, and the anomalies they find are recorded and       *)
(* answered as in a pass of those detectors alone.                         *)
(* Violated: the exception ends monitor(); the pass records no anomaly     *)
(* and initiates no response, whatever the other detectors would find.     *)
(***************************************************************************)
\* What the detectors other than the one named find, from detector i on.
RECURSIVE FindsOfOthers(_, _, _)
FindsOfOthers(raising, c, i) ==
    IF i > Len(Detectors) THEN <<>>
    ELSE (IF Detectors[i] = raising THEN <<>>
          ELSE DetectorFinds(Detectors[i], c))
         \o FindsOfOthers(raising, c, i + 1)

C30_DetectorsIsolated ==
    [][(/\ op'.name = "monitor"
        /\ op'.arg # <<>>
        /\ integrity_hash = CalculateHash(state))
          => LET n == Len(anomaly_history)
                 others == FindsOfOthers(op'.arg[1], [st |-> state, w |-> World], 1)
             IN /\ Len(audit') > 0
                /\ Len(anomaly_history') = n + Len(others)
                /\ \A i \in 1..Len(others) :
                      anomaly_history'[n + i].threat = others[i]
                /\ ResponseLevel(others) # "none"
                      => /\ op'.ret[1] = "response_initiated"
                         /\ op'.ret[2] = ResponseLevel(others)]_vars

(***************************************************************************)
(* C31.  A scan pass whose response level is moderate, or below moderate,  *)
(* changes no field of the kernel state (trust, harmony, emotion, context, *)
(* safe_mode, alert_level and heartbeat are as before, and so is the       *)
(* stored hash).  At moderate it records exactly one alert, of severity    *)
(* warning; below moderate it records no alert and logs one                *)
(* anomaly_detection entry for each anomaly of the pass.                   *)
(***************************************************************************)
\* How many entries of the log have this type.
EntriesOfType(log, type) ==
    Cardinality({i \in 1..Len(log) : log[i].type = type})

C31_ModerateNoMutation ==
    [][(/\ op'.name = "monitor"
        /\ \/ op'.ret[2] = "moderate"
           \/ op'.ret[1] \in {"threats_logged", "normal"})
          => /\ state' = state
             /\ integrity_hash' = integrity_hash
             /\ safe_mode_history' = safe_mode_history
             /\ op'.ret[2] = "moderate"
                   => SeveritiesAfter(alert_history', Len(alert_history))
                         = <<"warning">>
             /\ op'.ret[1] \in {"threats_logged", "normal"}
                   => /\ alert_history' = alert_history
                      /\ EntriesOfType(audit', "anomaly_detection")
                            = Len(anomaly_history') - Len(anomaly_history)
                      /\ EntriesOfType(audit', "alert") = 0]_vars

\* C31's case: a pass at moderate has just sent its warning.
C31_Witness ==
    /\ op.name = "monitor"
    /\ op.ret[2] = "moderate"
    /\ Len(alert_history) = 1
    /\ alert_history[1].severity = "warning"
    /\ state.alert_level = "normal"

(***************************************************************************)
(* C32.  The history of the kernel state.  An update_state that returns    *)
(* True appends exactly one history entry, holding the state before the    *)
(* call, the updates and the source; it sets heartbeat to the clock, not   *)
(* below the heartbeat before; it leaves the stored hash equal to the      *)
(* hash of the new state; and it logs one state_updated entry.  An         *)
(* update_state that returns False appends no entry.  No step removes or   *)
(* changes an entry of the history.                                        *)
(***************************************************************************)
\* How many entries of the log have this type and action.
EntriesOf(log, type, action) ==
    Cardinality({i \in 1..Len(log) :
                    log[i].type = type /\ log[i].action = action})

C32_HistoryAppendOnly ==
    [][LET n == Len(state_history)
       IN /\ Len(state_history') \in {n, n + 1}
          /\ SubSeq(state_history', 1, n) = state_history
          /\ Len(state_history') - n
                = EntriesOf(audit', "kernel_state", "state_updated")
          /\ Len(state_history') = n + 1
                => /\ state_history'[n + 1].previous_state = state
                   /\ state_history'[n + 1].timestamp = now
                   /\ state'.heartbeat = now
                   /\ state'.heartbeat >= state.heartbeat
                   /\ integrity_hash' = CalculateHash(state')
          /\ op'.name = "update_kernel_state"
                => /\ op'.ret = TRUE
                         => /\ Len(state_history') = n + 1
                            /\ state_history'[n + 1].updates = op'.arg
                            /\ state_history'[n + 1].source = <<"api">>
                   /\ op'.ret = FALSE => state_history' = state_history]_vars

\* C32's case: a second update has been accepted, from a state that the
\* first one had changed.
C32_Witness ==
    /\ op.name = "update_kernel_state"
    /\ op.ret = TRUE
    /\ Len(state_history) = 2
    /\ state_history[2].previous_state # state_history[1].previous_state
    /\ state_history[2].previous_state # state

(***************************************************************************)
(* C33.  The rate check of validate_input counts inputs: an input is       *)
(* quarantined for the rate limit only when more than 100 inputs were      *)
(* submitted within the last minute.  No behaviour here submits that       *)
(* many, so no validate_input quarantines for the rate limit, however      *)
(* many anomalies the scan passes have recorded.                           *)
(* Violated: _check_rate_limiting counts the records of anomaly_history;   *)
(* with 101 anomalies of this minute the first valid input is              *)
(* quarantined.                                                            *)
(***************************************************************************)
C33_RateCheckCountsInputs ==
    [][op'.name = "validate_input"
          => \A i \in (Len(quarantined_inputs) + 1)..Len(quarantined_inputs') :
                quarantined_inputs'[i].reason
                   # "Rate limiting threshold exceeded"]_vars

(***************************************************************************)
(* C34.  The anomaly history is a bounded window of the recent anomalies:  *)
(* its length never exceeds a fixed bound, however many scan passes        *)
(* record anomalies.  The bound tried is the window that                   *)
(* _analyze_behavior_patterns reads, the last 5 records.                   *)
(* Violated: _process_threats appends and nothing removes; a pass that     *)
(* finds anomalies makes the history longer at whatever length it has.     *)
(***************************************************************************)
\* The records _analyze_behavior_patterns reads: anomaly_history[-5:]
pattern_window == 5

C34_HistoryBounded == Len(anomaly_history) <= pattern_window

(***************************************************************************)
(* C35.  activate_safe_mode called with safe_mode false.  When its         *)
(* update_kernel_state is rejected it returns False, appends no            *)
(* activation record, logs no activated entry, sends no alert and leaves   *)
(* the state as it was.  When the update is accepted the state holds       *)
(* safe_mode true and alert_level critical together, one activation        *)
(* record with the four restrictions is appended and one alert, of         *)
(* severity critical, is sent.                                             *)
(***************************************************************************)
C35_ActivationAllOrNothing ==
    [][(op'.name = "activate_safe_mode" /\ ~state.safe_mode)
          => LET n == Len(safe_mode_history)
                 accepted == Logged(audit', "kernel_state", "state_updated")
             IN /\ ~accepted
                      => /\ op'.ret = FALSE
                         /\ safe_mode_history' = safe_mode_history
                         /\ ~Logged(audit', "safe_mode", "activated")
                         /\ alert_history' = alert_history
                         /\ state' = state
                /\ accepted
                      => /\ op'.ret = TRUE
                         /\ state'.safe_mode = TRUE
                         /\ state'.alert_level = "critical"
                         /\ Len(safe_mode_history') = n + 1
                         /\ safe_mode_history'[n + 1].restrictions
                               = {"disable_external_api", "limit_state_changes",
                                  "enhanced_logging", "require_authorization"}
                         /\ Logged(audit', "safe_mode", "activated")
                         /\ SeveritiesAfter(alert_history', Len(alert_history))
                               = <<"critical">>
                /\ op'.ret = FALSE => ~accepted]_vars

\* C35's case: an activation has just been refused with safe_mode false.
C35_Witness ==
    /\ op.name = "activate_safe_mode"
    /\ op.ret = FALSE
    /\ ~state.safe_mode
    /\ Logged(audit, "kernel_state", "integrity_compromised_before_update")
    /\ safe_mode_history = <<>>

(***************************************************************************)
(* C36.  Whatever the sequence of start_monitoring and stop_monitoring     *)
(* calls, at most one scan-loop thread and at most one watchdog-loop       *)
(* thread are alive per Guardian at any time, and a start_monitoring that  *)
(* finds monitoring active starts no thread.                               *)
(* Violated: stop_monitoring clears the flags without waiting for the      *)
(* sleeping threads to end; a start_monitoring that follows sets the flags *)
(* again and starts two more threads, and the old threads wake to a true   *)
(* flag and keep looping.                                                  *)
(***************************************************************************)
C36_OneThreadPerLoop ==
    /\ threads.scan <= 1
    /\ threads.watchdog <= 1

(***************************************************************************)
(* C37.  Once stop_monitoring has cleared the flags and no start follows,  *)
(* every scan-loop thread and every watchdog thread eventually ends; no    *)
(* cycle of a loop begins while its flag is cleared, so none activates     *)
(* safe mode or sends an alert after the stop; and no loop thread ends     *)
(* while its flag is set, that is before stop_monitoring is called.        *)
(* Violated in its last part, by the failure of C16: a cycle whose         *)
(* log_event raises ends its thread through the except clause, with        *)
(* monitoring still active.                                                *)
(***************************************************************************)
C37_LoopsEndOnStopOnly ==
    /\ (~monitoring_active) ~> (monitoring_active \/ threads.scan = 0)
    /\ (~watchdog_running) ~> (watchdog_running \/ threads.watchdog = 0)
    /\ [][/\ op'.name = "monitor" /\ steps' # steps => monitoring_active
          /\ op'.name = "watchdog_cycle" /\ steps' # steps => watchdog_running
          /\ threads'.scan < threads.scan => ~monitoring_active
          /\ threads'.watchdog < threads.watchdog => ~watchdog_running]_vars

\* The updates of state_history that turned safe_mode from false to true.
ActivationTransitions ==
    Cardinality({i \in 1..Len(state_history) :
                    /\ ~state_history[i].previous_state.safe_mode
                    /\ \E k \in 1..Len(state_history[i].updates) :
                          /\ state_history[i].updates[k].key = "safe_mode"
                          /\ state_history[i].updates[k].val.v = TRUE})

\* The "SAFE MODE ACTIVATED" alerts sent so far.
ActivationAlerts ==
    Cardinality({i \in 1..Len(alert_history) :
                    alert_history[i].message = "SAFE MODE ACTIVATED"})

(***************************************************************************)
(* C38.  With activate_safe_mode called by two threads at once, each       *)
(* false-to-true transition of safe_mode has exactly one activation record *)
(* and one "SAFE MODE ACTIVATED" alert: never more records or alerts than  *)
(* transitions, and as many once no call is in progress.                   *)
(* Violated: both callers read safe_mode false at line 75 before either    *)
(* updates; both updates are accepted (the second one writes true over     *)
(* true), and each caller appends its record and sends its alert.          *)
(***************************************************************************)
C38_OneActivationPerTransition ==
    /\ Len(safe_mode_history) <= ActivationTransitions
    /\ ActivationAlerts <= ActivationTransitions
    /\ (\A t \in Activators : threads[t].pc = "idle")
          => /\ Len(safe_mode_history) = ActivationTransitions
             /\ ActivationAlerts = ActivationTransitions

(***************************************************************************)
(* C39.  The heartbeat changes only in a step whose update_state           *)
(* succeeded; every successful update_state, whatever its source, sets it  *)
(* to the current time; and after a watchdog cycle whose activate_safe_mode*)
(* took effect the heartbeat is fresh: the next check finds no timeout.    *)
(* Violated in its first part, by the failure of C1: a refused update      *)
(* keeps the items written before the refused one, the heartbeat among     *)
(* them.                                                                   *)
(***************************************************************************)
C39_HeartbeatBySuccessfulUpdate ==
    [][/\ state'.heartbeat # state.heartbeat
             => Logged(audit', "kernel_state", "state_updated")
       /\ Logged(audit', "kernel_state", "state_updated")
             => state'.heartbeat = now'
       /\ (op'.name = "watchdog_cycle"
             /\ Logged(audit', "safe_mode", "activated"))
             => ~HeartbeatTimeout(World')]_vars

\* The lines of the file a reader parses: the persisted entries.
PersistedEntries(file) ==
    SelectSeq(file.lines, LAMBDA line : ~JsonLoadsRaises(line))

(***************************************************************************)
(* C40.  A log_event that fails before or while it writes its entry leaves *)
(* last_hash and integrity_chain as they were, and the next log_event that *)
(* writes its entry gives it the sequence number after the last persisted  *)
(* entry and that entry's hash as previous_hash.                           *)
(* Violated: a write that fails midway leaves a partial last line;         *)
(* _get_next_sequence fails to parse it and answers 0, so the next entry   *)
(* has sequence 0 whatever was persisted.                                  *)
(***************************************************************************)
C40_FailedWriteKeepsChain ==
    [][op'.name = "log_event" /\ steps' # steps
          => LET persisted == PersistedEntries(log_file)
                 last == persisted[Len(persisted)]
             IN /\ op'.arg # <<"none">>
                      => /\ last_hash' = last_hash
                         /\ integrity_chain' = integrity_chain
                /\ (op'.arg = <<"none">> /\ Len(persisted) > 0)
                      => /\ op'.ret[1].sequence = last.sequence + 1
                         /\ op'.ret[1].previous_hash = last.entry_hash]_vars

====
